---------------------------- MODULE Spec2Model ----------------------------
(***************************************************************************)
(* Session-oriented transport of binary payloads inside DNS query names:   *)
(* the sender (client.py), the receiver (server.py) and the text codecs    *)
(* they share (encoding_utils.py).                                         *)
(*                                                                         *)
(* Text is modelled as a sequence of ASCII codes, bytes as 0..255.         *)
(***************************************************************************)
EXTENDS Integers, Sequences, FiniteSets, TLC

(***************************************************************************)
(* Generic helpers                                                         *)
(***************************************************************************)
Range(s) == {s[i] : i \in 1..Len(s)}

Min2(a, b) == IF a <= b THEN a ELSE b

Max2(a, b) == IF a >= b THEN a ELSE b

Pow2(n) == 2 ^ n

\* s[a..b) with Python slice semantics (0-based, clipped to the length)
Slice(s, a, b) == SubSeq(s, a + 1, Min2(b, Len(s)))

RECURSIVE Flatten(_)
Flatten(ss) == IF ss = <<>> THEN <<>> ELSE Head(ss) \o Flatten(Tail(ss))

(***************************************************************************)
(* encoding_utils.py                                                       *)
(***************************************************************************)
\* "ABCDEFGHIJKLMNOPQRSTUVWXYZ234567" as ASCII codes
B32Alphabet ==
    <<65, 66, 67, 68, 69, 70, 71, 72, 73, 74, 75, 76, 77, 78, 79, 80,
      81, 82, 83, 84, 85, 86, 87, 88, 89, 90, 50, 51, 52, 53, 54, 55>>

\* str.upper() on one ASCII character
Upper(c) == IF c >= 97 /\ c <= 122 THEN c - 32 ELSE c

UpperStr(s) == [i \in 1..Len(s) |-> Upper(s[i])]

\* the 5-bit value of an (upper-case) Base32 character
B32Value(c) == IF c >= 65 /\ c <= 90 THEN c - 65 ELSE c - 50 + 26

B32Chars == Range(B32Alphabet)

is_valid_base32(data) == \A i \in 1..Len(data) : Upper(data[i]) \in B32Chars

\* element i (1-based) of s, zero beyond its end
At0(s, i) == IF i <= Len(s) THEN s[i] ELSE 0

\* b32encode without the padding: character i holds bits 5i .. 5i+4 of the
\* byte stream (i from 0), the last quantum filled with zero bits
EncodeChar(data, i) ==
    LET first == (5 * i) \div 8
        window == At0(data, first + 1) * 256 + At0(data, first + 2)
    IN  B32Alphabet[1 + ((window \div Pow2(11 - (5 * i - 8 * first))) % 32)]

encode_base32_no_padding(data) ==
    [i \in 1..((8 * Len(data) + 4) \div 5) |-> EncodeChar(data, i - 1)]

\* the 5-bit value of character i (1-based) of a text, zero beyond its end
DigitAt(text, i) == IF i <= Len(text) THEN B32Value(Upper(text[i])) ELSE 0

\* byte i (from 0) of the decoded stream: bits 8i .. 8i+7 of the 5-bit
\* digits
DecodeByte(text, i) ==
    LET first == (8 * i) \div 5
        window == DigitAt(text, first + 1) * 1024 + DigitAt(text, first + 2) * 32
                  + DigitAt(text, first + 3)
    IN  (window \div Pow2(7 - (8 * i - 5 * first))) % 256

\* binascii.Error
DecodeError == <<-1>>

\* pads to a multiple of 8 and b32decode(casefold=True): the padding count
\* must be one of 0, 1, 3, 4, 6 and every character a Base32 digit; the
\* bits left over after the last whole byte are dropped
decode_base32_no_padding(encoded) ==
    LET padding_needed == (8 - (Len(encoded) % 8)) % 8
    IN  IF ~is_valid_base32(encoded) \/ padding_needed \notin {0, 1, 3, 4, 6}
        THEN DecodeError
        ELSE [i \in 1..((5 * Len(encoded)) \div 8) |-> DecodeByte(encoded, i - 1)]

\* zlib.crc32: the register is a set of bit positions (0 = least significant)
Crc32Poly == {31, 30, 29, 27, 26, 24, 23, 21, 20, 19, 15, 9, 8, 5}

BitXor(a, b) == (a \ b) \cup (b \ a)

BitsOf(n, width) == {i \in 0..(width - 1) : (n \div Pow2(i)) % 2 = 1}

RECURSIVE BitsValue(_)
BitsValue(bits) ==
    IF bits = {} THEN 0
    ELSE LET b == CHOOSE x \in bits : TRUE IN Pow2(b) + BitsValue(bits \ {b})

Crc32Shift(reg) ==
    LET shifted == {b - 1 : b \in reg \ {0}}
    IN  IF 0 \in reg THEN BitXor(shifted, Crc32Poly) ELSE shifted

RECURSIVE Crc32Bits(_, _)
Crc32Bits(reg, n) == IF n = 0 THEN reg ELSE Crc32Bits(Crc32Shift(reg), n - 1)

\* the bits of every byte value, tabulated (entry byte + 1)
ByteBitsTable == <<>> \o [k \in 1..256 |-> BitsOf(k - 1, 8)]

\* eight shift steps of a register holding only its low byte, tabulated
Crc32Table == [low \in SUBSET (0..7) |-> Crc32Bits(low, 8)] @@ <<>>

\* one byte: xor it into the low bits, then eight shift steps (the shifts
\* of the low byte come from the table, the rest of the register moves down)
Crc32Byte(reg, byte) ==
    BitXor({b - 8 : b \in reg \ (0..7)},
           Crc32Table[BitXor(reg \cap (0..7), ByteBitsTable[byte + 1])])

\* the register stays 32 bits wide from byte to byte
RECURSIVE Crc32Reg(_, _, _)
Crc32Reg(reg, data, i) ==
    IF i > Len(data) THEN reg
    ELSE LET next == Crc32Byte(reg, data[i])
         IN  IF next \subseteq 0..31 THEN Crc32Reg(next, data, i + 1) ELSE {}

\* zlib.crc32(data) & 0xFFFF
crc32_low16(data) == BitsValue((0..15) \ Crc32Reg(0..31, data, 1))

calculate_checksum(data, length) ==
    LET crc == crc32_low16(data)
        crc_bytes == <<crc \div 256, crc % 256>>
        checksum == encode_base32_no_padding(crc_bytes)
        padded == IF Len(checksum) < length
                  THEN checksum \o [i \in 1..(length - Len(checksum)) |-> 65]
                  ELSE checksum
    IN  UpperStr(Slice(padded, 0, length))

validate_checksum(data, checksum) ==
    UpperStr(calculate_checksum(data, Len(checksum))) = UpperStr(checksum)

(***************************************************************************)
(* Python containers                                                       *)
(*                                                                         *)
(* A dict whose iteration order the code relies on is a sequence of        *)
(* <<key, value>> pairs in insertion order; a dict that is only looked up  *)
(* is a function on its set of keys.                                       *)
(***************************************************************************)
DictKeys(d) == [i \in 1..Len(d) |-> d[i][1]]

DictHas(d, k) == \E i \in 1..Len(d) : d[i][1] = k

DictGet(d, k) == d[CHOOSE i \in 1..Len(d) : d[i][1] = k][2]

DictSet(d, k, v) ==
    IF DictHas(d, k)
    THEN [i \in 1..Len(d) |-> IF d[i][1] = k THEN <<k, v>> ELSE d[i]]
    ELSE Append(d, <<k, v>>)

DictPop(d, k) == SelectSeq(d, LAMBDA e : e[1] # k)

MapSet(f, k, v) == [x \in DOMAIN f \cup {k} |-> IF x = k THEN v ELSE f[x]]

MapPop(f, k) == [x \in DOMAIN f \ {k} |-> f[x]]

EmptyMap == [x \in {} |-> 0]

RemoveFirst(s, e) ==
    LET i == CHOOSE j \in 1..Len(s) : s[j] = e /\ \A k \in 1..(j - 1) : s[k] # e
    IN  SubSeq(s, 1, i - 1) \o SubSeq(s, i + 1, Len(s))

(***************************************************************************)
(* Text helpers: str(i), str.zfill, str.isdigit, str.split, str.join       *)
(***************************************************************************)
Hyphen == 45

Dot == 46

RECURSIVE IntToStr(_)
IntToStr(n) == IF n < 10 THEN <<48 + n>> ELSE Append(IntToStr(n \div 10), 48 + (n % 10))

Zfill(s, width) == IF Len(s) >= width THEN s ELSE [i \in 1..(width - Len(s)) |-> 48] \o s

IsDigitStr(s) == Len(s) > 0 /\ \A i \in 1..Len(s) : s[i] >= 48 /\ s[i] <= 57

RECURSIVE StrToInt(_)
StrToInt(s) == IF s = <<>> THEN 0 ELSE 10 * StrToInt(SubSeq(s, 1, Len(s) - 1)) + (s[Len(s)] - 48)

\* s.split(sep): the fields between every occurrence of sep
RECURSIVE SplitAll(_, _)
SplitAll(s, sep) ==
    IF \A i \in 1..Len(s) : s[i] # sep THEN <<s>>
    ELSE LET i == CHOOSE j \in 1..Len(s) : s[j] = sep /\ \A k \in 1..(j - 1) : s[k] # sep
         IN  <<SubSeq(s, 1, i - 1)>> \o SplitAll(SubSeq(s, i + 1, Len(s)), sep)

\* s.split(sep, 1)[0]
SplitFirst(s, sep) == SplitAll(s, sep)[1]

RECURSIVE Join(_, _)
Join(parts, sep) ==
    IF Len(parts) = 0 THEN <<>>
    ELSE IF Len(parts) = 1 THEN parts[1]
    ELSE parts[1] \o <<sep>> \o Join(Tail(parts), sep)

\* "DONE"
DoneMarker == <<68, 79, 78, 69>>

(***************************************************************************)
(* server.py: ExfiltrationResolver                                         *)
(*                                                                         *)
(* The receiver state st is the record of the resolver's fields; events    *)
(* lists what the record being handled did (reassembly attempts, discards) *)
(* and output_files holds, per session id, the bytes most recently written.*)
(***************************************************************************)
DNS_LABEL_MAX_LEN == 63

RateWindow == 60

ValidResidues == {0, 2, 4, 5, 7}

RCODE_OK == "NOERROR"

RCODE_NXDOMAIN == "NXDOMAIN"

\* AvailableChunks stepping over missing sequence numbers
RECURSIVE AvailableChunks_SkipsGaps(_, _)
AvailableChunks_SkipsGaps(session_chunks, i) ==
    IF \A k \in DOMAIN session_chunks : StrToInt(k) < i THEN <<>>
    ELSE (IF Zfill(IntToStr(i), 4) \in DOMAIN session_chunks
          THEN <<session_chunks[Zfill(IntToStr(i), 4)]>> ELSE <<>>)
         \o AvailableChunks_SkipsGaps(session_chunks, i + 1)

\* AvailableChunks joining the contiguous chunks in decreasing order
RECURSIVE AvailableChunks_Descending(_, _)
AvailableChunks_Descending(session_chunks, i) ==
    IF Zfill(IntToStr(i), 4) \in DOMAIN session_chunks
    THEN AvailableChunks_Descending(session_chunks, i + 1) \o <<session_chunks[Zfill(IntToStr(i), 4)]>>
    ELSE <<>>

\* the contiguous chunks 0000, 0001, ... of a session's chunk map
RECURSIVE AvailableChunks(_, _)
AvailableChunks(session_chunks, i) ==
    IF Zfill(IntToStr(i), 4) \in DOMAIN session_chunks
    THEN <<session_chunks[Zfill(IntToStr(i), 4)]>> \o AvailableChunks(session_chunks, i + 1)
    ELSE <<>>

\* WriteAllowed without the comparison against the expected total
WriteAllowed_IgnoresExpected(available_chunks, combined_data, expected) ==
    /\ available_chunks # <<>>
    /\ is_valid_base32(combined_data)
    /\ (Len(combined_data) % 8) \in ValidResidues

\* WriteAllowed accepting more contiguous chunks than the expected total
WriteAllowed_AtLeastExpected(available_chunks, combined_data, expected) ==
    /\ available_chunks # <<>>
    /\ is_valid_base32(combined_data)
    /\ (Len(combined_data) % 8) \in ValidResidues
    /\ \A e \in expected : Len(available_chunks) >= e

\* whether a reassembly attempt reaches the decoding, given the contiguous
\* chunks, their concatenation and the session's expected total (a set:
\* empty while no DONE record was seen)
WriteAllowed(available_chunks, combined_data, expected) ==
    /\ available_chunks # <<>>
    /\ is_valid_base32(combined_data)
    /\ (Len(combined_data) % 8) \in ValidResidues
    /\ \A e \in expected : Len(available_chunks) = e

FlushEvent(st, session_id, wrote, data) ==
    [op |-> "flush", sid |-> session_id,
     chunks |-> IF DictHas(st.data_chunks, session_id)
                THEN DictGet(st.data_chunks, session_id) ELSE EmptyMap,
     expected |-> IF session_id \in DOMAIN st.expected_total_chunks
                  THEN {st.expected_total_chunks[session_id]} ELSE {},
     wrote |-> wrote, data |-> data]

DiscardEvent(st, session_id) ==
    [FlushEvent(st, session_id, FALSE, <<>>) EXCEPT !.op = "discard"]

try_write_to_file(st, session_id) ==
    IF ~DictHas(st.data_chunks, session_id)
    THEN [st EXCEPT !.events = Append(@, FlushEvent(st, session_id, FALSE, <<>>))]
    ELSE LET session_chunks == DictGet(st.data_chunks, session_id)
             available_chunks == AvailableChunks(session_chunks, 0)
             combined_data == Flatten(available_chunks)
             expected == IF session_id \in DOMAIN st.expected_total_chunks
                         THEN {st.expected_total_chunks[session_id]} ELSE {}
             decoded_bytes == <<>> \o decode_base32_no_padding(combined_data)
         IN  IF /\ WriteAllowed(available_chunks, combined_data, expected)
                /\ decoded_bytes # DecodeError
             THEN [st EXCEPT
                    !.output_files = MapSet(@, session_id, decoded_bytes),
                    !.events = Append(@, FlushEvent(st, session_id, TRUE, decoded_bytes))]
             ELSE [st EXCEPT !.events = Append(@, FlushEvent(st, session_id, FALSE, <<>>))]

\* DiscardSession leaving the first_seen entry behind
DiscardSession_KeepsFirstSeen(st, session_id) ==
    [st EXCEPT
       !.data_chunks = DictPop(@, session_id),
       !.expected_total_chunks = MapPop(@, session_id),
       !.session_last_activity = DictPop(@, session_id),
       !.events = Append(@, DiscardEvent(st, session_id))]

\* the four pops that discard a session
DiscardSession(st, session_id) ==
    [st EXCEPT
       !.data_chunks = DictPop(@, session_id),
       !.expected_total_chunks = MapPop(@, session_id),
       !.session_first_seen = MapPop(@, session_id),
       !.session_last_activity = DictPop(@, session_id),
       !.events = Append(@, DiscardEvent(st, session_id))]

\* EvictSession with the two steps swapped: discard, then flush
EvictSession_DiscardsFirst(st, oldest_id) ==
    try_write_to_file(DiscardSession(st, oldest_id), oldest_id)

\* one round of the eviction loop: flush, then discard
EvictSession(st, oldest_id) ==
    DiscardSession(try_write_to_file(st, oldest_id), oldest_id)

\* one idle session of the expiry loop: flush, then discard
ExpireSession(st, sid) ==
    DiscardSession(try_write_to_file(st, sid), sid)

TotalChunks(data_chunks) ==
    LET RECURSIVE Sum(_)
        Sum(i) == IF i = 0 THEN 0 ELSE Cardinality(DOMAIN data_chunks[i][2]) + Sum(i - 1)
    IN  Sum(Len(data_chunks))

FirstSeenOf(st, sid) ==
    IF sid \in DOMAIN st.session_first_seen THEN st.session_first_seen[sid] ELSE 0

\* OldestOf taking the session seen last
OldestOf_Newest(st, candidates) ==
    candidates[CHOOSE i \in 1..Len(candidates) :
        /\ \A j \in 1..Len(candidates) :
              FirstSeenOf(st, candidates[i]) >= FirstSeenOf(st, candidates[j])
        /\ \A j \in 1..(i - 1) :
              FirstSeenOf(st, candidates[j]) < FirstSeenOf(st, candidates[i])]

\* min(candidates, key=first_seen): the first of the smallest
OldestOf(st, candidates) ==
    candidates[CHOOSE i \in 1..Len(candidates) :
        /\ \A j \in 1..Len(candidates) :
              FirstSeenOf(st, candidates[i]) <= FirstSeenOf(st, candidates[j])
        /\ \A j \in 1..(i - 1) :
              FirstSeenOf(st, candidates[j]) > FirstSeenOf(st, candidates[i])]

\* OverLimits letting the session count reach max_sessions + 1
OverLimits_SessionsAbove(cfg, data_chunks) ==
    \/ Len(data_chunks) > cfg.max_sessions
    \/ TotalChunks(data_chunks) > cfg.max_total_chunks

\* OverLimits without the chunk ceiling
OverLimits_SessionsOnly(cfg, data_chunks) ==
    Len(data_chunks) >= cfg.max_sessions

\* the condition of the eviction loop
OverLimits(cfg, data_chunks) ==
    \/ Len(data_chunks) >= cfg.max_sessions
    \/ TotalChunks(data_chunks) > cfg.max_total_chunks

RECURSIVE EvictLoop(_, _, _)
EvictLoop(cfg, st, candidates) ==
    IF OverLimits(cfg, st.data_chunks) /\ candidates # <<>>
    THEN LET oldest_id == OldestOf(st, candidates)
         IN  EvictLoop(cfg, EvictSession(st, oldest_id), RemoveFirst(candidates, oldest_id))
    ELSE st

\* what an eviction pass left behind
EvictPassEvent(before, after, current_session_id) ==
    [op |-> "evict_pass", sid |-> current_session_id,
     sessions |-> DictKeys(after.data_chunks),
     total_before |-> TotalChunks(before.data_chunks),
     total |-> TotalChunks(after.data_chunks)]

evict_oldest_sessions(cfg, st, current_session_id) ==
    LET after == EvictLoop(cfg, st, SelectSeq(DictKeys(st.data_chunks),
                                              LAMBDA s : s # current_session_id))
    IN  [after EXCEPT !.events = Append(@, EvictPassEvent(st, after, current_session_id))]

IsIdle(cfg, st, sid, now) ==
    now - (IF DictHas(st.session_last_activity, sid)
           THEN DictGet(st.session_last_activity, sid) ELSE 0) > cfg.chunk_timeout

RECURSIVE ExpireLoop(_, _, _, _)
ExpireLoop(cfg, st, sids, now) ==
    IF sids = <<>> THEN st
    ELSE ExpireLoop(cfg,
                    IF IsIdle(cfg, st, Head(sids), now)
                    THEN ExpireSession(st, Head(sids)) ELSE st,
                    Tail(sids), now)

expire_idle_sessions(cfg, st, now) ==
    ExpireLoop(cfg, st, DictKeys(st.session_last_activity), now)

\* the except branch of resolve, and the checksum failure: rcode 3
ReplyFailure(st) == [st EXCEPT !.reply = RCODE_NXDOMAIN]

\* a reply carrying the placeholder A record
ReplyAnswer(st) == [st EXCEPT !.reply = RCODE_OK]

\* while timestamps and timestamps[0] < now - 60: popleft()
RECURSIVE PopOldTimestamps(_, _)
PopOldTimestamps(timestamps, now) ==
    IF timestamps # <<>> /\ Head(timestamps) < now - RateWindow
    THEN PopOldTimestamps(Tail(timestamps), now)
    ELSE timestamps

IsDoneRecord(parts) ==
    /\ Len(parts) = 3
    /\ parts[2] = DoneMarker
    /\ IsDigitStr(parts[3])
    /\ Len(parts[3]) = 4

\* DONE control: <session>-DONE-<total_chunks>
resolve_done(st, parts, now) ==
    LET session_id == parts[1]
        total == StrToInt(parts[3])
    IN  IF ~is_valid_base32(session_id) THEN ReplyFailure(st)
        ELSE ReplyAnswer(
               try_write_to_file(
                 [st EXCEPT
                    !.expected_total_chunks = MapSet(@, session_id, total),
                    !.session_last_activity = DictSet(@, session_id, now)],
                 session_id))

\* lines 158-162: expiry, activity and first-seen stamps, eviction
resolve_housekeeping(cfg, st, session_id, now) ==
    LET expired == expire_idle_sessions(cfg, st, now)
        stamped == [expired EXCEPT
                      !.session_last_activity = DictSet(@, session_id, now),
                      !.session_first_seen =
                          IF session_id \in DOMAIN @ THEN @ ELSE MapSet(@, session_id, now)]
    IN  evict_oldest_sessions(cfg, stamped, session_id)

FieldsValid(session_id, seq_str, chunk_data, checksum) ==
    /\ is_valid_base32(session_id)
    /\ Len(seq_str) = 4 /\ IsDigitStr(seq_str)
    /\ is_valid_base32(chunk_data)
    /\ is_valid_base32(checksum)

\* lines 190-195: create the session's chunk map if needed, store the chunk
StoreChunk(st, session_id, seq_str, chunk_data) ==
    LET session_chunks == IF DictHas(st.data_chunks, session_id)
                          THEN DictGet(st.data_chunks, session_id) ELSE EmptyMap
    IN  [st EXCEPT !.data_chunks =
            DictSet(@, session_id, MapSet(session_chunks, seq_str, chunk_data))]

\* Data: <session>-<seq>-<chunk>-<checksum>
resolve_data(cfg, st, parts, now) ==
    LET session_id == parts[1]
        seq_str == parts[2]
        chunk_data == parts[3]
        checksum == parts[4]
        kept == resolve_housekeeping(cfg, st, session_id, now)
    IN  IF ~FieldsValid(session_id, seq_str, chunk_data, checksum) THEN ReplyFailure(kept)
        ELSE IF ~validate_checksum(chunk_data, checksum) THEN ReplyFailure(kept)
        ELSE ReplyAnswer(
               try_write_to_file(StoreChunk(kept, session_id, seq_str, chunk_data),
                                 session_id))

\* lines 127-214: a record the rate limiter admitted
resolve_label(cfg, st, query_name, now) ==
    LET subdomain == SplitFirst(query_name, Dot)
        parts == SplitAll(subdomain, Hyphen)
    IN  IF Len(subdomain) > DNS_LABEL_MAX_LEN THEN ReplyFailure(st)
        ELSE IF IsDoneRecord(parts) THEN resolve_done(st, parts, now)
        ELSE IF Len(parts) # 4 THEN ReplyFailure(st)
        ELSE resolve_data(cfg, st, parts, now)

\* RateLimitFull letting the window grow one past the limit
RateLimitFull_AboveLimit(cfg, timestamps) ==
    \E limit \in cfg.server_rate_limit : Len(timestamps) > limit

\* lines 116-125: the optional global rate limit
RateLimitFull(cfg, timestamps) ==
    \E limit \in cfg.server_rate_limit : Len(timestamps) >= limit

\* the record was turned away at line 121
RateLimitedEvent == [op |-> "rate_limited"]

resolve(cfg, st0, query_name, now) ==
    LET st == [st0 EXCEPT !.events = <<>>]
    IN  IF cfg.server_rate_limit = {} THEN resolve_label(cfg, st, query_name, now)
        ELSE LET pruned == PopOldTimestamps(st.rate_limit_timestamps, now)
             IN  IF RateLimitFull(cfg, pruned)
                 THEN ReplyFailure([st EXCEPT !.rate_limit_timestamps = pruned,
                                              !.events = Append(@, RateLimitedEvent)])
                 ELSE resolve_label(cfg,
                                    [st EXCEPT !.rate_limit_timestamps = Append(pruned, now)],
                                    query_name, now)

(***************************************************************************)
(* client.py: DNSExfiltrationClient                                        *)
(***************************************************************************)
SEQ_WIDTH == 4

MIN_CHUNK_SIZE == 40

MAX_RETRIES == 3

\* the response times _update_rate averages over
ResponseWindow == 10

\* an average above 1.0 s is slow, below 0.1 s fast (milliseconds)
SlowThreshold == 1000

FastThreshold == 100

\* the most chunks a file is cut into
MaxChunks == 7

\* current_rate is kept as an integer number of 1 / RateScale queries per
\* minute: every update multiplies by 0.9 or 1.1, and a transfer makes at
\* most one update per chunk, so the products stay exact
RateScale == 10 ^ MaxChunks

\* the settings of ServerConfig the sender reads, with the rate settings of
\* config.py
ClientConfigOf(session_id_length, checksum_length, chunk_size) ==
    [session_id_length |-> session_id_length, checksum_length |-> checksum_length,
     chunk_size |-> chunk_size,
     base_rate_limit |-> 75, max_rate_limit |-> 150, enable_adaptive_rate |-> TRUE,
     enable_jitter |-> TRUE]

RECURSIVE SumSeq(_)
SumSeq(s) == IF s = <<>> THEN 0 ELSE Head(s) + SumSeq(Tail(s))

\* _update_rate without the ceiling on the raised rate
update_rate_NoCeiling(ccfg, current_rate, response_times, response_time) ==
    LET appended == Append(response_times, response_time)
        kept == IF Len(appended) > ResponseWindow THEN Tail(appended) ELSE appended
    IN  [response_times |-> kept,
         current_rate |->
             IF SumSeq(kept) > SlowThreshold * Len(kept)
             THEN Max2((ccfg.base_rate_limit * RateScale) \div 2, (current_rate \div 10) * 9)
             ELSE IF SumSeq(kept) < FastThreshold * Len(kept)
             THEN (current_rate \div 10) * 11
             ELSE current_rate]

\* _update_rate: the new current_rate and response_times after a response
\* that took response_time milliseconds
update_rate(ccfg, current_rate, response_times, response_time) ==
    IF ~ccfg.enable_adaptive_rate
    THEN [response_times |-> response_times, current_rate |-> current_rate]
    ELSE LET appended == Append(response_times, response_time)
             kept == IF Len(appended) > ResponseWindow THEN Tail(appended) ELSE appended
         IN  [response_times |-> kept,
              current_rate |->
                  IF SumSeq(kept) > SlowThreshold * Len(kept)
                  THEN Max2((ccfg.base_rate_limit * RateScale) \div 2,
                            (current_rate \div 10) * 9)
                  ELSE IF SumSeq(kept) < FastThreshold * Len(kept)
                  THEN Min2(ccfg.max_rate_limit * RateScale, (current_rate \div 10) * 11)
                  ELSE current_rate]

\* the exponent from which 2.0 ** n is outside the range of a float and
\* raises OverflowError
FLOAT_MAX_EXP == 1024

\* random.uniform(-0.1, 0.1) in percent: its ends and its middle
JitterPercents == {-10, 0, 10}

\* line 124: min(2.0 ** consecutive_errors, 16.0); the power is evaluated
\* first, and is above 16 for every exponent above 4
backoff_multiplier(errors) ==
    IF errors >= FLOAT_MAX_EXP
    THEN [raised |-> TRUE, value |-> 0]
    ELSE [raised |-> FALSE, value |-> IF errors > 4 THEN 16 ELSE Min2(Pow2(errors), 16)]

\* _calculate_delay: the multiplier and the delays it can return, one for
\* each jitter, in milliseconds (the rate taken to three decimals), unless
\* it raises
calculate_delay(ccfg, current_rate, consecutive_errors) ==
    LET backoff == IF consecutive_errors > 0
                   THEN backoff_multiplier(consecutive_errors)
                   ELSE [raised |-> FALSE, value |-> 1]
        base_delay == (60000 * 1000 * backoff.value)
                          \div (current_rate \div (RateScale \div 1000))
    IN  IF backoff.raised
        THEN [raised |-> TRUE, multiplier |-> 0, delay |-> {}]
        ELSE [raised |-> FALSE, multiplier |-> backoff.value,
              delay |-> {Max2(10, base_delay + (jitter * base_delay) \div 100) :
                            jitter \in IF ccfg.enable_jitter THEN JitterPercents ELSE {0}}]

\* whether one of the calls of _calculate_delay raised
Raised(results) == \E i \in 1..Len(results) : results[i].raised

\* __init__: the configured chunk size, cut to what the label leaves and
\* raised to the minimum
ClientChunkSize(ccfg) ==
    LET overhead == ccfg.session_id_length + SEQ_WIDTH + ccfg.checksum_length + 3
        max_chunk_size == DNS_LABEL_MAX_LEN - overhead
        fitted == Min2(max_chunk_size, ccfg.chunk_size)
    IN  IF fitted < MIN_CHUNK_SIZE THEN MIN_CHUNK_SIZE ELSE fitted

\* chunk_data without the final short chunk
chunk_data_DropsTail(raw_bytes, chunk_size) ==
    LET encoded_data == encode_base32_no_padding(raw_bytes)
    IN  [k \in 1..(Len(encoded_data) \div chunk_size) |->
            Slice(encoded_data, (k - 1) * chunk_size, k * chunk_size)]

\* the Base32 text of the file, cut every chunk_size characters
chunk_data(raw_bytes, chunk_size) ==
    LET encoded_data == encode_base32_no_padding(raw_bytes)
    IN  [k \in 1..((Len(encoded_data) + chunk_size - 1) \div chunk_size) |->
            Slice(encoded_data, (k - 1) * chunk_size, k * chunk_size)]

\* send_chunk: <session>-<seq>-<chunk>-<checksum>
ChunkLabel(session_id, chunk_id, chunk, checksum_length) ==
    Join(<<session_id, Zfill(IntToStr(chunk_id), SEQ_WIDTH), chunk,
           calculate_checksum(chunk, checksum_length)>>, Hyphen)

\* send_done: <session>-DONE-<total_chunks>
CompletionLabel(session_id, total_chunks) ==
    Join(<<session_id, DoneMarker, Zfill(IntToStr(total_chunks), SEQ_WIDTH)>>, Hyphen)

\* ChunkTransmittable without the length check
ChunkTransmittable_AnyLength(label, chunk) == is_valid_base32(chunk)

\* send_chunk hands the label to the transport unless it is too long or the
\* chunk is not Base32
ChunkTransmittable(label, chunk) ==
    /\ ~(Len(label) > DNS_LABEL_MAX_LEN)
    /\ is_valid_base32(chunk)

\* send_done hands the label to the transport unless it is too long
DoneTransmittable(label) == ~(Len(label) > DNS_LABEL_MAX_LEN)

\* RetryAllowed granting one attempt more
RetryAllowed_OneMore(attempt) == attempt <= MAX_RETRIES

\* line 262: after a failed attempt (numbered from 0) another one follows
RetryAllowed(attempt) == attempt < MAX_RETRIES

\* the outcomes of one transport call; the first three count as delivered
Delivered == {"Answered", "NameNotFound", "NoData"}

Outcomes == Delivered \cup {"TransportError"}

\* len(label) of a data label: the checksum has checksum_length characters
ChunkLabelLen(ccfg, chunk_id, chunk) ==
    ccfg.session_id_length + 1 + Len(Zfill(IntToStr(chunk_id), SEQ_WIDTH)) + 1
    + Len(chunk) + 1 + ccfg.checksum_length

\* generate_session_id: length characters of the Base32 text of random
\* bytes; here the first characters of "JKD3BRQ7"
generate_session_id(length) == Slice(<<74, 75, 68, 51, 66, 82, 81, 55>>, 0, length)

\* every label of one transfer, in sending order: the chunks, then DONE
TransferLabels(ccfg, session_id, raw_bytes) ==
    LET cut == chunk_data(raw_bytes, ClientChunkSize(ccfg))
    IN  [k \in 1..(Len(cut) + 1) |->
            IF k <= Len(cut)
            THEN ChunkLabel(session_id, k - 1, cut[k], ccfg.checksum_length)
            ELSE CompletionLabel(session_id, Len(cut))]

(***************************************************************************)
(* Bounds and inputs of the receiver model                                 *)
(***************************************************************************)
\* highest sequence number an inbound record carries
MaxSeq == 1

\* steps (records handled and clock steps) of one run
MaxSteps == 3

\* the clock advances TickStep seconds at a time
TickStep == 31

\* "AAAA", "BBBB", "CCCC"
SessionA == <<65, 65, 65, 65>>

SessionB == <<66, 66, 66, 66>>

SessionC == <<67, 67, 67, 67>>

SessionIds == {SessionA, SessionB, SessionC}

\* "ME" (decodes to one byte) and "MFRA" (two bytes)
ChunkME == <<77, 69>>

ChunkMFRA == <<77, 70, 82, 65>>

\* "M!": not Base32
BadChunkText == <<77, 33>>

\* "AAA": the checksum of neither chunk text
WrongChecksum == <<65, 65, 65>>

\* the queried zone, ".d."
DomainSuffix == <<46, 100, 46>>

SeqStr(i) == Zfill(IntToStr(i), 4)

DataLabel(session_id, seq_str, chunk, checksum) ==
    Join(<<session_id, seq_str, chunk, checksum>>, Hyphen)

DoneLabel(session_id, total_str) == Join(<<session_id, DoneMarker, total_str>>, Hyphen)

GoodDataLabels ==
    {DataLabel(sid, SeqStr(i), ChunkME, calculate_checksum(ChunkME, 3)) :
        sid \in SessionIds, i \in 0..MaxSeq}
    \cup {DataLabel(SessionA, SeqStr(i), ChunkMFRA, calculate_checksum(ChunkMFRA, 3)) :
        i \in 0..MaxSeq}

BadChecksumLabels ==
    {DataLabel(SessionA, SeqStr(i), ChunkME, WrongChecksum) : i \in 0..MaxSeq}

InvalidFieldLabels ==
    { DataLabel(SessionA, <<49>>, ChunkME, calculate_checksum(ChunkME, 3)),
      DataLabel(SessionB, SeqStr(0), BadChunkText, WrongChecksum) }

DoneLabels ==
    {DoneLabel(SessionA, SeqStr(n)) : n \in 0..(MaxSeq + 1)}
    \cup {DoneLabel(SessionB, SeqStr(1))}

MalformedLabels ==
    { Join(<<SessionA, SeqStr(0)>>, Hyphen),
      DataLabel(SessionA, SeqStr(0), [i \in 1..51 |-> 65], WrongChecksum) }

\* four fields, the checksum field empty or of one character
ShortChecksumLabels ==
    { DataLabel(SessionA, SeqStr(0), ChunkME, <<>>),
      DataLabel(SessionA, SeqStr(0), ChunkMFRA, calculate_checksum(ChunkMFRA, 1)) }

InboundLabels ==
    GoodDataLabels \cup BadChecksumLabels \cup InvalidFieldLabels \cup DoneLabels
    \cup MalformedLabels \cup ShortChecksumLabels

\* max_sessions, max_total_chunks, chunk_timeout, server_rate_limit (a set:
\* empty for None)
ServerConfigOf(max_sessions, max_total_chunks, chunk_timeout, server_rate_limit) ==
    [max_sessions |-> max_sessions, max_total_chunks |-> max_total_chunks,
     chunk_timeout |-> chunk_timeout, server_rate_limit |-> server_rate_limit]

ServerConfigs ==
    { ServerConfigOf(1, 2, 30, {}), ServerConfigOf(3, 1, 30, {}) }

(***************************************************************************)
(* Bounds and inputs of the transfer model: one file sent to the receiver  *)
(***************************************************************************)
\* how long (seconds) a transfer is watched
MaxTransferTime == 40

\* a file of n bytes
Payload(n) == [i \in 1..n |-> (i * 37 + 11) % 256]

\* <<sender settings, file size>>: 5 chunks of 45,45,45,45,28; one chunk of
\* 2; 3 chunks of 44,44,4; 2 chunks of 40,5
TransferInputs ==
    { <<ClientConfigOf(6, 3, 45), 130>>, <<ClientConfigOf(6, 3, 45), 1>>,
      <<ClientConfigOf(8, 4, 50), 57>>, <<ClientConfigOf(4, 2, 40), 28>> }

\* the receiver of a transfer: no session or chunk ceiling in reach
TransferServerConfig == ServerConfigOf(100, 50000, 30, {})

\* a label whose checksum field was damaged on the way: its first
\* character replaced by another Base32 character
CorruptChecksum(label) ==
    LET parts == SplitAll(label, Hyphen)
        checksum == parts[4]
        damaged == [checksum EXCEPT ![1] = IF @ = 65 THEN 66 ELSE 65]
    IN  Join(<<parts[1], parts[2], parts[3], damaged>>, Hyphen)

\* the record that may arrive damaged: chunk 2, or the last chunk of a
\* shorter transfer
DamagedIndex(labels) == Min2(3, Len(labels) - 1)

(***************************************************************************)
(* State                                                                   *)
(***************************************************************************)
VARIABLES
    config,                  \* the receiver's ServerConfig
    data_chunks,             \* session id -> (sequence string -> chunk text)
    expected_total_chunks,   \* session id -> total of the DONE record
    session_first_seen,      \* session id -> time
    session_last_activity,   \* session id -> time
    rate_limit_timestamps,   \* the rate limiter's window
    output_files,            \* session id -> bytes most recently written
    events,                  \* what the last record did
    reply,                   \* rcode of the last reply
    query,                   \* the last query name handled
    now,                     \* time.time()
    steps,                   \* records handled and clock steps taken
    client_config,           \* the sender's settings
    session_id,              \* the sender's session id
    payload,                 \* the bytes of the file being sent
    wire,                    \* the labels of the transfer, in sending order
    rejected,                \* indices of wire the receiver rejected
    discarded,               \* the receiver discarded the transfer's session
    pc,                      \* where exfiltrate_file is
    chunks,                  \* the chunks of the file
    chunk_index,             \* the chunk being sent
    attempt,                 \* failed attempts made for it
    success_count,           \* chunks delivered
    failed_chunks,           \* chunks given up
    current_rate,            \* queries per minute, times RateScale
    response_times,          \* the last response times, milliseconds
    consecutive_errors,      \* failed attempts since the last delivery
    done_sent,               \* the outcomes of the DONE queries made
    returned,                \* what exfiltrate_file returned
    delays,                  \* what the calls of _calculate_delay of the last attempt returned
    transport_label,         \* the label last handed to the transport
    refused_label,           \* the label last refused before the transport
    file_status,             \* what validate_file finds at the file's path
    outcomes,                \* how the transport calls of one send_chunk ended
    chunk_sent,              \* what that send_chunk returned
    threads,                 \* the calls of resolve in progress
    admitted                 \* when the rate limiter admitted a record

serverVars ==
    <<data_chunks, expected_total_chunks, session_first_seen, session_last_activity,
      rate_limit_timestamps, output_files, events, reply, query>>

transferVars == <<client_config, session_id, payload, wire, rejected, discarded>>

senderVars ==
    <<pc, chunks, chunk_index, attempt, success_count, failed_chunks, current_rate,
      response_times, consecutive_errors, done_sent, returned, delays>>

labelVars == <<transport_label, refused_label>>

otherVars == <<file_status, outcomes, chunk_sent, threads, admitted>>

vars == <<config, serverVars, now, steps, transferVars, senderVars, labelVars, otherVars>>

ServerState ==
    [data_chunks |-> data_chunks,
     expected_total_chunks |-> expected_total_chunks,
     session_first_seen |-> session_first_seen,
     session_last_activity |-> session_last_activity,
     rate_limit_timestamps |-> rate_limit_timestamps,
     output_files |-> output_files,
     events |-> events,
     reply |-> reply]

\* ExfiltrationResolver.__init__
InitServer ==
    /\ data_chunks = <<>>
    /\ expected_total_chunks = EmptyMap
    /\ session_first_seen = EmptyMap
    /\ session_last_activity = <<>>
    /\ rate_limit_timestamps = <<>>
    /\ output_files = EmptyMap
    /\ events = <<>>
    /\ reply = RCODE_OK
    /\ query = <<>>
    /\ now = 0
    /\ steps = 0
    /\ threads = <<>>
    /\ admitted = <<>>

\* no transfer
NoTransfer ==
    /\ client_config = ClientConfigOf(6, 3, 45)
    /\ session_id = <<>>
    /\ payload = <<>>
    /\ wire = <<>>
    /\ rejected = {}
    /\ discarded = FALSE
    /\ file_status = "readable"

\* no sender
NoSender ==
    /\ pc = "INIT"
    /\ chunks = <<>>
    /\ chunk_index = 0
    /\ attempt = 0
    /\ success_count = 0
    /\ failed_chunks = <<>>
    /\ current_rate = 0
    /\ response_times = <<>>
    /\ consecutive_errors = 0
    /\ done_sent = <<>>
    /\ returned = "nothing"
    /\ delays = <<>>
    /\ transport_label = <<>>
    /\ refused_label = <<>>
    /\ outcomes = <<>>
    /\ chunk_sent = "nothing"

\* the sender between two calls of send_chunk, none delivered yet and the
\* last attempts, errors of them, failed
SenderAfterErrors(errors) ==
    /\ pc = "INIT"
    /\ chunks = <<>>
    /\ chunk_index = 0
    /\ attempt = 0
    /\ success_count = 0
    /\ failed_chunks = <<>>
    /\ current_rate = client_config.base_rate_limit * RateScale
    /\ response_times = <<>>
    /\ consecutive_errors = errors
    /\ done_sent = <<>>
    /\ returned = "nothing"
    /\ delays = <<>>
    /\ transport_label = <<>>
    /\ refused_label = <<>>
    /\ outcomes = <<>>
    /\ chunk_sent = "nothing"

\* the sender after __init__, before exfiltrate_file is called
InitSender == SenderAfterErrors(0)

Init ==
    /\ config \in ServerConfigs
    /\ InitServer
    /\ NoTransfer
    /\ NoSender

SetServerState(st) ==
    /\ data_chunks' = st.data_chunks
    /\ expected_total_chunks' = st.expected_total_chunks
    /\ session_first_seen' = st.session_first_seen
    /\ session_last_activity' = st.session_last_activity
    /\ rate_limit_timestamps' = st.rate_limit_timestamps
    /\ output_files' = st.output_files
    /\ events' = st.events
    /\ reply' = st.reply

\* the transport hands one query to resolve
Resolve(label) ==
    /\ steps < MaxSteps
    /\ \E st \in {resolve(config, ServerState, label \o DomainSuffix, now)} :
          SetServerState(st)
    /\ query' = label \o DomainSuffix
    /\ steps' = steps + 1
    /\ UNCHANGED <<otherVars, config, now, transferVars, senderVars, labelVars>>

ResolveAny == \E label \in InboundLabels : Resolve(label)

\* time passes between two records
Tick ==
    /\ steps < MaxSteps
    /\ now' = now + TickStep
    /\ steps' = steps + 1
    /\ UNCHANGED <<otherVars, config, serverVars, transferVars, senderVars, labelVars>>

Next == ResolveAny \/ Tick

Spec == Init /\ [][Next]_vars

(***************************************************************************)
(* One transfer: the sender's labels reach the receiver in any order, any  *)
(* number of times; one of them may arrive with a damaged checksum.        *)
(***************************************************************************)
InitTransfer ==
    /\ config = TransferServerConfig
    /\ InitServer
    /\ \E input \in TransferInputs :
          /\ client_config = input[1]
          /\ session_id = generate_session_id(input[1].session_id_length)
          /\ payload = Payload(input[2])
          /\ wire = TransferLabels(input[1], generate_session_id(input[1].session_id_length),
                                   Payload(input[2]))
    /\ rejected = {}
    /\ discarded = FALSE
    /\ file_status = "readable"
    /\ NoSender

SessionDiscarded(st, sid) ==
    \E i \in 1..Len(st.events) : st.events[i].op = "discard" /\ st.events[i].sid = sid

DeliverLabel(k, label) ==
    \E st \in {resolve(config, ServerState, label \o DomainSuffix, now)} :
        /\ SetServerState(st)
        /\ query' = label \o DomainSuffix
        /\ rejected' = IF st.reply = RCODE_OK THEN rejected ELSE rejected \cup {k}
        /\ discarded' = (discarded \/ SessionDiscarded(st, session_id))
        /\ UNCHANGED <<otherVars, config, now, steps, client_config, session_id, payload, wire,
                       senderVars, labelVars>>

\* a label of the transfer arrives as sent
Deliver == \E k \in 1..Len(wire) : DeliverLabel(k, wire[k])

\* the chunk that may be damaged arrives damaged
DeliverDamaged ==
    /\ Len(wire) > 1
    /\ DeliverLabel(DamagedIndex(wire), CorruptChecksum(wire[DamagedIndex(wire)]))

\* time passes between two records of the transfer
TransferTick ==
    /\ now + TickStep <= MaxTransferTime
    /\ now' = now + TickStep
    /\ UNCHANGED <<otherVars, config, serverVars, steps, transferVars, senderVars, labelVars>>

NextTransfer == Deliver \/ DeliverDamaged \/ TransferTick

SpecTransfer == InitTransfer /\ [][NextTransfer]_vars

(***************************************************************************)
(* The sender alone: exfiltrate_file cuts a file into chunks and sends     *)
(* them one by one; the transport decides how every query ends and how     *)
(* long its answer takes.                                                  *)
(***************************************************************************)
\* response times the transport shows, milliseconds
ResponseTimes == {50, 2000}

\* <<base_rate_limit, max_rate_limit, enable_adaptive_rate>>
RateSettings == { <<10, 12, TRUE>>, <<12, 16, FALSE>> }

SenderConfigOf(rates) ==
    [ClientConfigOf(6, 3, 45) EXCEPT !.base_rate_limit = rates[1],
                                     !.max_rate_limit = rates[2],
                                     !.enable_adaptive_rate = rates[3]]

\* files of 0, 28, 56, ... bytes: 0, 1, 2, ... chunks of 45 characters
FileSizes == {28 * n : n \in 0..MaxChunks}

\* validate_file: the file exists and is not above max_total_size, or it
\* raises FileNotFoundError or ValueError
FileStatuses == {"readable", "missing", "oversized"}

InitClient ==
    /\ config = TransferServerConfig
    /\ InitServer
    /\ \E rates \in RateSettings : client_config = SenderConfigOf(rates)
    /\ \E size \in FileSizes : payload = Payload(size)
    /\ session_id = <<>>
    /\ wire = <<>>
    /\ rejected = {}
    /\ discarded = FALSE
    /\ file_status \in FileStatuses
    /\ InitSender

\* exfiltrate_file when validate_file raises: the except branch returns
\* False before a session id exists or a query is made
RejectFile ==
    /\ pc = "INIT"
    /\ file_status # "readable"
    /\ pc' = "FAILED"
    /\ returned' = "False"
    /\ UNCHANGED <<otherVars, config, serverVars, now, steps, transferVars, chunks, chunk_index,
                   attempt, success_count, failed_chunks, current_rate, response_times,
                   consecutive_errors, done_sent, delays, labelVars>>

\* exfiltrate_file up to its loop
StartTransfer ==
    /\ pc = "INIT"
    /\ file_status = "readable"
    /\ session_id' = generate_session_id(client_config.session_id_length)
    /\ chunks' = chunk_data(payload, ClientChunkSize(client_config))
    /\ success_count' = 0
    /\ failed_chunks' = <<>>
    /\ chunk_index' = 0
    /\ attempt' = 0
    /\ pc' = "SENDING"
    /\ UNCHANGED <<otherVars, config, serverVars, now, steps, client_config, payload, wire, rejected,
                   discarded, current_rate, response_times, consecutive_errors, done_sent,
                   returned, delays, labelVars>>

\* the checks of send_chunk before its first attempt
ChunkPassesLocalChecks ==
    /\ ~(ChunkLabelLen(client_config, chunk_index, chunks[chunk_index + 1])
           > DNS_LABEL_MAX_LEN)
    /\ is_valid_base32(chunks[chunk_index + 1])

\* lines 216-220: before the first attempt for a chunk send_chunk computes
\* the delay, once a query was delivered (last_query_time is set)
PacingDelays ==
    IF attempt = 0 /\ success_count > 0
    THEN <<calculate_delay(client_config, current_rate, consecutive_errors)>>
    ELSE <<>>

\* an attempt of send_chunk ends with an answer, a missing name or no data
ChunkDelivered ==
    /\ pc = "SENDING"
    /\ chunk_index < Len(chunks)
    /\ ChunkPassesLocalChecks
    /\ ~Raised(PacingDelays)
    /\ delays' = PacingDelays
    /\ \E response_time \in ResponseTimes :
         \E updated \in {update_rate(client_config, current_rate, response_times,
                                     response_time)} :
            /\ current_rate' = updated.current_rate
            /\ response_times' = updated.response_times
    /\ consecutive_errors' = 0
    /\ success_count' = success_count + 1
    /\ chunk_index' = chunk_index + 1
    /\ attempt' = 0
    /\ UNCHANGED <<otherVars, config, serverVars, now, steps, transferVars, pc, chunks, failed_chunks,
                   done_sent, returned, labelVars>>

\* send_chunk refuses the chunk, or an attempt ends with a transport error:
\* retried until max_retries + 1 attempts were made, then the chunk is given
\* up; when _calculate_delay raises, before the first attempt or before a
\* retry, the exception leaves send_chunk and the except branch of
\* exfiltrate_file returns False
ChunkFails ==
    /\ pc = "SENDING"
    /\ chunk_index < Len(chunks)
    /\ IF ~ChunkPassesLocalChecks
       THEN /\ failed_chunks' = Append(failed_chunks, chunk_index)
            /\ chunk_index' = chunk_index + 1
            /\ delays' = <<>>
            /\ UNCHANGED <<attempt, consecutive_errors, pc, returned>>
       ELSE IF Raised(PacingDelays)
       THEN /\ delays' = PacingDelays
            /\ pc' = "FAILED"
            /\ returned' = "False"
            /\ UNCHANGED <<attempt, consecutive_errors, chunk_index, failed_chunks>>
       ELSE /\ consecutive_errors' = consecutive_errors + 1
            /\ IF RetryAllowed(attempt)
               THEN \E retry \in {calculate_delay(client_config, current_rate,
                                                   consecutive_errors + 1)} :
                       /\ delays' = Append(PacingDelays, retry)
                       /\ IF retry.raised
                          THEN /\ pc' = "FAILED"
                               /\ returned' = "False"
                               /\ UNCHANGED <<attempt, chunk_index, failed_chunks>>
                          ELSE /\ attempt' = attempt + 1
                               /\ UNCHANGED <<chunk_index, failed_chunks, pc, returned>>
               ELSE /\ failed_chunks' = Append(failed_chunks, chunk_index)
                    /\ chunk_index' = chunk_index + 1
                    /\ attempt' = 0
                    /\ delays' = PacingDelays
                    /\ UNCHANGED <<pc, returned>>
    /\ UNCHANGED <<otherVars, config, serverVars, now, steps, transferVars, chunks, success_count,
                   current_rate, response_times, done_sent, labelVars>>

\* LoopEnds never letting the loop over the chunks end
LoopEnds_Never(attempted, total_chunks) == FALSE

\* line 329: the loop over the chunks ends once every chunk was attempted
LoopEnds(attempted, total_chunks) == attempted = total_chunks

\* SendsDone whatever the count of delivered chunks
SendsDone_Always(delivered_count, total_chunks) == TRUE

\* line 345: send_done is called when every chunk was delivered
SendsDone(delivered_count, total_chunks) == delivered_count = total_chunks

\* exfiltrate_file after its loop: the success rate (a division by the
\* number of chunks, whose ZeroDivisionError the except branch turns into
\* False), the DONE query when every chunk was delivered, the result
FinishTransfer ==
    /\ pc = "SENDING"
    /\ LoopEnds(chunk_index, Len(chunks))
    /\ IF Len(chunks) = 0
       THEN /\ pc' = "FAILED"
            /\ returned' = "False"
            /\ UNCHANGED done_sent
       ELSE /\ IF /\ SendsDone(success_count, Len(chunks))
                  /\ DoneTransmittable(CompletionLabel(session_id, Len(chunks)))
               THEN \E outcome \in Outcomes : done_sent' = Append(done_sent, outcome)
               ELSE UNCHANGED done_sent
            /\ IF success_count = Len(chunks)
               THEN pc' = "COMPLETE" /\ returned' = "True"
               ELSE pc' = "FAILED" /\ returned' = "False"
    /\ UNCHANGED <<otherVars, config, serverVars, now, steps, transferVars, chunks, chunk_index, attempt,
                   success_count, failed_chunks, current_rate, response_times,
                   consecutive_errors, delays, labelVars>>

NextClient == RejectFile \/ StartTransfer \/ ChunkDelivered \/ ChunkFails \/ FinishTransfer

SpecClient == InitClient /\ [][NextClient]_vars

\* the sender is one sequential thread: as long as every transport call and
\* every sleep returns, its next statement is executed
SpecClientLive == InitClient /\ [][NextClient]_vars /\ WF_vars(NextClient)

(***************************************************************************)
(* The labels of the sender: send_chunk and send_done build a label and    *)
(* hand it to the transport, or refuse it, under every accepted setting.   *)
(***************************************************************************)
\* the settings ServerConfig accepts
LabelConfigs ==
    {ClientConfigOf(s, c, z) : s \in 4..8, c \in 2..4, z \in 40..50}

\* chunk indices and totals with 4 and with 5 digits
LabelIndices == {0, 9999, 10000}

\* a full chunk and a last chunk of 2 characters
LabelChunks(ccfg) ==
    { Slice(encode_base32_no_padding(Payload(32)), 0, ClientChunkSize(ccfg)),
      encode_base32_no_padding(Payload(1)) }

InitLabel ==
    /\ config = TransferServerConfig
    /\ InitServer
    /\ client_config \in LabelConfigs
    /\ session_id = generate_session_id(client_config.session_id_length)
    /\ payload = <<>>
    /\ wire = <<>>
    /\ rejected = {}
    /\ discarded = FALSE
    /\ file_status = "readable"
    /\ NoSender

\* send_chunk up to the transport
HandChunk ==
    /\ \E chunk_id \in LabelIndices, chunk \in LabelChunks(client_config) :
         \E label \in {ChunkLabel(session_id, chunk_id, chunk,
                                  client_config.checksum_length)} :
            IF ChunkTransmittable(label, chunk)
            THEN transport_label' = label /\ refused_label' = <<>>
            ELSE transport_label' = <<>> /\ refused_label' = label
    /\ UNCHANGED <<otherVars, config, serverVars, now, steps, transferVars, senderVars>>

\* send_done up to the transport
HandDone ==
    /\ \E total \in LabelIndices :
         \E label \in {CompletionLabel(session_id, total)} :
            IF DoneTransmittable(label)
            THEN transport_label' = label /\ refused_label' = <<>>
            ELSE transport_label' = <<>> /\ refused_label' = label
    /\ UNCHANGED <<otherVars, config, serverVars, now, steps, transferVars, senderVars>>

NextLabel == HandChunk \/ HandDone

SpecLabel == InitLabel /\ [][NextLabel]_vars

(***************************************************************************)
(* One call of send_chunk: the label is built and checked, then the        *)
(* transport is tried until it delivers or max_retries + 1 attempts have   *)
(* failed.                                                                 *)
(***************************************************************************)
\* settings whose data labels have 61 and 63 characters with a sequence
\* number of 4 digits
ChunkConfigs ==
    { [ClientConfigOf(6, 3, 45) EXCEPT !.base_rate_limit = 10, !.max_rate_limit = 12],
      [ClientConfigOf(8, 4, 50) EXCEPT !.base_rate_limit = 10, !.max_rate_limit = 12] }

\* failed attempts in a row before the call of send_chunk: none, or those
\* of 256 chunks given up one after the other
ChunkErrorsBefore == {0, (MAX_RETRIES + 1) * 256}

InitChunk ==
    /\ config = TransferServerConfig
    /\ InitServer
    /\ client_config \in ChunkConfigs
    /\ session_id = generate_session_id(client_config.session_id_length)
    /\ payload = <<>>
    /\ wire = <<>>
    /\ rejected = {}
    /\ discarded = FALSE
    /\ file_status = "readable"
    /\ \E errors \in ChunkErrorsBefore : SenderAfterErrors(errors)

\* send_chunk up to its retry loop: the label and the two local checks
BeginChunk ==
    /\ chunk_sent = "nothing"
    /\ \E chunk_id \in LabelIndices, chunk \in LabelChunks(client_config) :
         \E label \in {ChunkLabel(session_id, chunk_id, chunk,
                                  client_config.checksum_length)} :
            /\ chunk_index' = chunk_id
            /\ IF ChunkTransmittable(label, chunk)
               THEN /\ transport_label' = label
                    /\ refused_label' = <<>>
                    /\ chunk_sent' = "pending"
               ELSE /\ transport_label' = <<>>
                    /\ refused_label' = label
                    /\ chunk_sent' = "False"
    /\ attempt' = 0
    /\ outcomes' = <<>>
    /\ UNCHANGED <<file_status, threads, admitted, config, serverVars, now, steps,
                   transferVars, pc, chunks, success_count, failed_chunks, current_rate,
                   response_times, consecutive_errors, done_sent, returned, delays>>

\* an attempt ends with an answer, a missing name or no data: send_chunk
\* updates the rate and returns True
AttemptDelivered ==
    /\ chunk_sent = "pending"
    /\ \E outcome \in Delivered : outcomes' = Append(outcomes, outcome)
    /\ \E response_time \in ResponseTimes :
         \E updated \in {update_rate(client_config, current_rate, response_times,
                                     response_time)} :
            /\ current_rate' = updated.current_rate
            /\ response_times' = updated.response_times
    /\ consecutive_errors' = 0
    /\ chunk_sent' = "True"
    /\ delays' = <<>>
    /\ UNCHANGED <<file_status, threads, admitted, config, serverVars, now, steps,
                   transferVars, pc, chunks, chunk_index, attempt, success_count,
                   failed_chunks, done_sent, returned, labelVars>>

\* an attempt ends with any other exception: another attempt follows, or
\* send_chunk returns False, or _calculate_delay raises and so does
\* send_chunk
AttemptFails ==
    /\ chunk_sent = "pending"
    /\ outcomes' = Append(outcomes, "TransportError")
    /\ consecutive_errors' = consecutive_errors + 1
    /\ IF RetryAllowed(attempt)
       THEN \E retry \in {calculate_delay(client_config, current_rate,
                                           consecutive_errors + 1)} :
               /\ delays' = <<retry>>
               /\ IF retry.raised
                  THEN chunk_sent' = "OverflowError" /\ UNCHANGED attempt
                  ELSE attempt' = attempt + 1 /\ UNCHANGED chunk_sent
       ELSE chunk_sent' = "False" /\ delays' = <<>> /\ UNCHANGED attempt
    /\ UNCHANGED <<file_status, threads, admitted, config, serverVars, now, steps,
                   transferVars, pc, chunks, chunk_index, success_count, failed_chunks,
                   current_rate, response_times, done_sent, returned, labelVars>>

NextChunk == BeginChunk \/ AttemptDelivered \/ AttemptFails

SpecChunk == InitChunk /\ [][NextChunk]_vars

(***************************************************************************)
(* Concurrent dispatch: the transport calls resolve for two records at     *)
(* once, each call in a thread of its own.  resolve takes no lock, so the  *)
(* calls interleave between statements; the statements that touch the      *)
(* shared maps are the steps below (the loops of expiry and eviction and   *)
(* try_write_to_file are taken as one step each, which leaves out          *)
(* interleavings the program has but adds none).                           *)
(***************************************************************************)
ThreadIds == {1, 2}

\* a valid record of each of two sessions, a DONE record, a record with a
\* wrong checksum
ConcurrentLabels ==
    { DataLabel(SessionA, SeqStr(0), ChunkME, calculate_checksum(ChunkME, 3)),
      DataLabel(SessionB, SeqStr(0), ChunkME, calculate_checksum(ChunkME, 3)),
      DoneLabel(SessionA, SeqStr(1)),
      DataLabel(SessionA, SeqStr(0), ChunkME, WrongChecksum) }

ConcurrentConfigs ==
    { ServerConfigOf(1, 2, 30, {}), ServerConfigOf(3, 2, 30, {1}) }

ThreadFails(th) == [th EXCEPT !.pc = "returned", !.rcode = RCODE_NXDOMAIN]

ThreadAnswers(th) == [th EXCEPT !.pc = "returned", !.rcode = RCODE_OK]

\* lines 128-156: the label is cut into fields, no shared state is touched
ThreadParses(th) ==
    LET subdomain == SplitFirst(th.query_name, Dot)
        parts == SplitAll(subdomain, Hyphen)
    IN  IF Len(subdomain) > DNS_LABEL_MAX_LEN THEN ThreadFails(th)
        ELSE IF IsDoneRecord(parts)
        THEN (IF is_valid_base32(parts[1])
              THEN [th EXCEPT !.pc = "done_total"] ELSE ThreadFails(th))
        ELSE IF Len(parts) # 4 THEN ThreadFails(th)
        ELSE [th EXCEPT !.pc = "expire"]

\* the next statement of a call of resolve: the receiver state and the
\* thread after it
ThreadStep(cfg, st, th, time) ==
    LET parts == SplitAll(SplitFirst(th.query_name, Dot), Hyphen)
        sid == parts[1]
    IN  CASE th.pc = "start" ->
               IF cfg.server_rate_limit = {} THEN [st |-> st, th |-> ThreadParses(th)]
               ELSE LET pruned == PopOldTimestamps(st.rate_limit_timestamps, time)
                    IN  [st |-> [st EXCEPT !.rate_limit_timestamps = pruned],
                         th |-> IF RateLimitFull(cfg, pruned) THEN ThreadFails(th)
                                ELSE [th EXCEPT !.pc = "append"]]
          [] th.pc = "append" ->
               [st |-> [st EXCEPT !.rate_limit_timestamps = Append(@, time)],
                th |-> ThreadParses(th)]
          [] th.pc = "done_total" ->
               [st |-> [st EXCEPT !.expected_total_chunks =
                                     MapSet(@, sid, StrToInt(parts[3]))],
                th |-> [th EXCEPT !.pc = "done_activity"]]
          [] th.pc = "done_activity" ->
               [st |-> [st EXCEPT !.session_last_activity = DictSet(@, sid, time)],
                th |-> [th EXCEPT !.pc = "done_flush"]]
          [] th.pc = "done_flush" ->
               [st |-> try_write_to_file(st, sid), th |-> ThreadAnswers(th)]
          [] th.pc = "expire" ->
               [st |-> expire_idle_sessions(cfg, st, time),
                th |-> [th EXCEPT !.pc = "stamp_activity"]]
          [] th.pc = "stamp_activity" ->
               [st |-> [st EXCEPT !.session_last_activity = DictSet(@, sid, time)],
                th |-> [th EXCEPT !.pc = "stamp_first_seen"]]
          [] th.pc = "stamp_first_seen" ->
               [st |-> [st EXCEPT !.session_first_seen =
                           IF sid \in DOMAIN @ THEN @ ELSE MapSet(@, sid, time)],
                th |-> [th EXCEPT !.pc = "evict"]]
          [] th.pc = "evict" ->
               [st |-> evict_oldest_sessions(cfg, st, sid),
                th |-> IF /\ FieldsValid(parts[1], parts[2], parts[3], parts[4])
                          /\ validate_checksum(parts[3], parts[4])
                       THEN [th EXCEPT !.pc = "create"] ELSE ThreadFails(th)]
          [] th.pc = "create" ->
               [st |-> IF DictHas(st.data_chunks, sid) THEN st
                       ELSE [st EXCEPT !.data_chunks = DictSet(@, sid, EmptyMap)],
                th |-> [th EXCEPT !.pc = "store"]]
          [] th.pc = "store" ->
               \* data_chunks[session_id][seq_str] = ...: a KeyError when the
               \* session is gone, which the except branch answers with rcode 3
               IF DictHas(st.data_chunks, sid)
               THEN [st |-> StoreChunk(st, sid, parts[2], parts[3]),
                     th |-> [th EXCEPT !.pc = "flush"]]
               ELSE [st |-> st, th |-> ThreadFails(th)]
          [] th.pc = "flush" ->
               [st |-> try_write_to_file(st, sid), th |-> ThreadAnswers(th)]

InitConcurrent ==
    /\ config \in ConcurrentConfigs
    /\ InitServer
    /\ NoTransfer
    /\ NoSender

\* the transport starts a call of resolve in a new thread
Dispatch ==
    /\ Len(threads) < Cardinality(ThreadIds)
    /\ \E label \in ConcurrentLabels :
          threads' = Append(threads, [query_name |-> label \o DomainSuffix,
                                      pc |-> "start", rcode |-> "none"])
    /\ UNCHANGED <<file_status, outcomes, chunk_sent, admitted, config, serverVars, now,
                   steps, transferVars, senderVars, labelVars>>

\* a thread executes its next statement
ThreadRuns ==
    \E t \in 1..Len(threads) :
        /\ threads[t].pc # "returned"
        /\ \E after \in {ThreadStep(config, [ServerState EXCEPT !.events = <<>>],
                                      threads[t], now)} :
              /\ SetServerState(after.st)
              /\ threads' = [threads EXCEPT ![t] = after.th]
        /\ UNCHANGED <<file_status, outcomes, chunk_sent, admitted, config, query, now,
                       steps, transferVars, senderVars, labelVars>>

NextConcurrent == Dispatch \/ ThreadRuns

SpecConcurrent == InitConcurrent /\ [][NextConcurrent]_vars

(***************************************************************************)
(* The receiver with the global rate limit set: records of one session     *)
(* arrive while the clock advances past the 60-second window.              *)
(***************************************************************************)
\* steps (records handled and clock steps) of one run
MaxRateSteps == 6

RateLimitedConfigs ==
    { ServerConfigOf(3, 5, 30, {1}), ServerConfigOf(3, 5, 30, {2}) }

\* a valid record, a DONE record, a wrong checksum, a wrong field count
RateLabels ==
    { DataLabel(SessionA, SeqStr(0), ChunkME, calculate_checksum(ChunkME, 3)),
      DoneLabel(SessionA, SeqStr(1)),
      DataLabel(SessionA, SeqStr(0), ChunkME, WrongChecksum),
      Join(<<SessionA, SeqStr(0)>>, Hyphen) }

InitRate ==
    /\ config \in RateLimitedConfigs
    /\ InitServer
    /\ NoTransfer
    /\ NoSender

\* the transport hands one query to resolve
RateResolve ==
    /\ steps < MaxRateSteps
    /\ \E label \in RateLabels :
         \E st \in {resolve(config, ServerState, label \o DomainSuffix, now)} :
            /\ SetServerState(st)
            /\ query' = label \o DomainSuffix
            /\ admitted' = IF \E i \in 1..Len(st.events) : st.events[i] = RateLimitedEvent
                           THEN admitted ELSE Append(admitted, now)
    /\ steps' = steps + 1
    /\ UNCHANGED <<file_status, outcomes, chunk_sent, threads, config, now, transferVars,
                   senderVars, labelVars>>

\* time passes between two records
RateTick ==
    /\ steps < MaxRateSteps
    /\ now' = now + TickStep
    /\ steps' = steps + 1
    /\ UNCHANGED <<otherVars, config, serverVars, transferVars, senderVars, labelVars>>

NextRate == RateResolve \/ RateTick

SpecRate == InitRate /\ [][NextRate]_vars

(***************************************************************************)
(* Sender and receiver together: every query of exfiltrate_file either     *)
(* reaches resolve, intact or with its checksum damaged on the way, and    *)
(* the sender sees the reply, or it is lost and the sender sees a          *)
(* transport error.                                                        *)
(***************************************************************************)
\* the receiver without and with a global rate limit
LinkServerConfigs ==
    { TransferServerConfig, ServerConfigOf(100, 50000, 30, {1}) }

\* files of 1, 2 and 3 chunks
LinkFileSizes == {28, 56, 84}

\* what the sender's transport call raises or returns for a reply: rcode 3
\* raises dns.resolver.NXDOMAIN, an answer is returned
OutcomeOf(rcode) == IF rcode = RCODE_NXDOMAIN THEN "NameNotFound" ELSE "Answered"

InitLink ==
    /\ config \in LinkServerConfigs
    /\ InitServer
    /\ client_config = SenderConfigOf(<<10, 12, TRUE>>)
    /\ \E size \in LinkFileSizes : payload = Payload(size)
    /\ session_id = <<>>
    /\ wire = <<>>
    /\ rejected = {}
    /\ discarded = FALSE
    /\ file_status = "readable"
    /\ InitSender

\* an attempt of send_chunk whose query reaches resolve: the receiver
\* handles the record and the sender handles the reply
LinkDeliver ==
    /\ pc = "SENDING"
    /\ chunk_index < Len(chunks)
    /\ ChunkPassesLocalChecks
    /\ \E damaged \in BOOLEAN :
         \E sent \in {ChunkLabel(session_id, chunk_index, chunks[chunk_index + 1],
                                 client_config.checksum_length)} :
          \E st \in {resolve(config, ServerState,
                              (IF damaged THEN CorruptChecksum(sent) ELSE sent)
                                  \o DomainSuffix, now)} :
            /\ SetServerState(st)
            /\ query' = (IF damaged THEN CorruptChecksum(sent) ELSE sent) \o DomainSuffix
            /\ OutcomeOf(st.reply) \in Delivered
            /\ rejected' = IF st.reply = RCODE_OK
                           THEN rejected \ {chunk_index + 1}
                           ELSE rejected \cup {chunk_index + 1}
    /\ \E response_time \in ResponseTimes :
         \E updated \in {update_rate(client_config, current_rate, response_times,
                                     response_time)} :
            /\ current_rate' = updated.current_rate
            /\ response_times' = updated.response_times
    /\ consecutive_errors' = 0
    /\ success_count' = success_count + 1
    /\ chunk_index' = chunk_index + 1
    /\ attempt' = 0
    /\ UNCHANGED <<otherVars, config, now, steps, client_config, session_id, payload, wire,
                   discarded, pc, chunks, failed_chunks, done_sent, returned, labelVars>>
    /\ ~Raised(PacingDelays)
    /\ delays' = PacingDelays

\* exfiltrate_file after its loop, the DONE query reaching resolve or not
LinkFinish ==
    /\ pc = "SENDING"
    /\ LoopEnds(chunk_index, Len(chunks))
    /\ Len(chunks) > 0
    /\ IF /\ SendsDone(success_count, Len(chunks))
          /\ DoneTransmittable(CompletionLabel(session_id, Len(chunks)))
       THEN \/ /\ done_sent' = Append(done_sent, "TransportError")
               /\ UNCHANGED <<serverVars>>
            \/ \E st \in {resolve(config, ServerState,
                                   CompletionLabel(session_id, Len(chunks))
                                       \o DomainSuffix, now)} :
                  /\ SetServerState(st)
                  /\ query' = CompletionLabel(session_id, Len(chunks)) \o DomainSuffix
                  /\ done_sent' = Append(done_sent, OutcomeOf(st.reply))
       ELSE UNCHANGED <<serverVars, done_sent>>
    /\ IF success_count = Len(chunks)
       THEN pc' = "COMPLETE" /\ returned' = "True"
       ELSE pc' = "FAILED" /\ returned' = "False"
    /\ UNCHANGED <<otherVars, config, now, steps, transferVars, chunks, chunk_index, attempt,
                   success_count, failed_chunks, current_rate, response_times,
                   consecutive_errors, delays, labelVars>>

NextLink == StartTransfer \/ LinkDeliver \/ ChunkFails \/ LinkFinish

SpecLink == InitLink /\ [][NextLink]_vars

(***************************************************************************)
(* Reading the state                                                       *)
(***************************************************************************)
Events(op) == {i \in 1..Len(events) : events[i].op = op}

QueryParts == SplitAll(SplitFirst(query, Dot), Hyphen)

\* the smallest sequence number a chunk map does not hold
ContiguousPrefixLen(chunk_map) ==
    CHOOSE k \in 0..Cardinality(DOMAIN chunk_map) :
        /\ \A j \in 0..(k - 1) : SeqStr(j) \in DOMAIN chunk_map
        /\ SeqStr(k) \notin DOMAIN chunk_map

SessionChunksOf(chunk_dict, sid) ==
    IF DictHas(chunk_dict, sid) THEN DictGet(chunk_dict, sid) ELSE EmptyMap

\* the step handles a record (the clock stands still while it does)
RecordStep == steps' = steps + 1 /\ now' = now

(***************************************************************************)
(* C1  Completion exactness: a reassembly attempt made while the session's *)
(* expected_total is known writes output only if the contiguous prefix     *)
(* from 0000 has exactly expected_total chunks; an attempt on a session    *)
(* holding expected_total - 1 chunks writes nothing.                       *)
(***************************************************************************)
C1_CompletionExactness ==
    \A i \in Events("flush") :
        \A n \in events[i].expected :
            /\ events[i].wrote =>
                  /\ ContiguousPrefixLen(events[i].chunks) = n
                  /\ \A k \in 0..(n - 1) : SeqStr(k) \in DOMAIN events[i].chunks
            /\ Cardinality(DOMAIN events[i].chunks) = n - 1 => ~events[i].wrote

\* a DONE record completed a session and its output was written
C1_Witness ==
    /\ IsDoneRecord(QueryParts)
    /\ \E i \in Events("flush") :
          /\ events[i].wrote
          /\ events[i].expected = {MaxSeq + 1}
          /\ events[i].sid = QueryParts[1]

(***************************************************************************)
(* C2  End-to-end identity: once the receiver holds every data record of   *)
(* the transfer and its DONE record, none of the transfer's records was    *)
(* rejected and its session was never discarded, the output most recently  *)
(* written for the session is the payload, byte for byte, whatever the     *)
(* order of arrival.                                                       *)
(***************************************************************************)
TransferChunks == SessionChunksOf(data_chunks, session_id)

\* the number of data records of the transfer
TransferTotal == Len(wire) - 1

AllRecordsProcessed ==
    /\ rejected = {}
    /\ ~discarded
    /\ DOMAIN TransferChunks = {SeqStr(i) : i \in 0..(TransferTotal - 1)}
    /\ session_id \in DOMAIN expected_total_chunks
    /\ expected_total_chunks[session_id] = TransferTotal

C2_EndToEndIdentity ==
    AllRecordsProcessed =>
        /\ session_id \in DOMAIN output_files
        /\ output_files[session_id] = payload

\* the 130-byte payload arrived whole in 5 chunks, and the record that
\* completed it was its first chunk: DONE had arrived before it
C2_Witness ==
    /\ AllRecordsProcessed
    /\ Len(payload) = 130
    /\ TransferTotal = 5
    /\ query = wire[1] \o DomainSuffix
    /\ output_files[session_id] = payload

(***************************************************************************)
(* C3  Gap blocks output, as stated: a reassembly attempt on a chunk map   *)
(* in which a sequence number below the highest stored one is missing      *)
(* writes nothing.                                                         *)
(***************************************************************************)
HasGap(chunk_map) == ContiguousPrefixLen(chunk_map) < Cardinality(DOMAIN chunk_map)

PrefixChars(chunk_map) ==
    Len(Flatten([k \in 1..ContiguousPrefixLen(chunk_map) |-> chunk_map[SeqStr(k - 1)]]))

C4_SessionCapacity ==
    /\ Len(data_chunks) <= config.max_sessions
    /\ \A i \in Events("evict_pass") :
          \/ Len(events[i].sessions) < config.max_sessions
          \/ Range(events[i].sessions) \subseteq {events[i].sid}
    /\ (reply = RCODE_OK /\ Len(QueryParts) = 4) =>
          \E i \in Events("evict_pass") : i < Len(events)

\* the map is full right after a record whose eviction pass discarded a session
C4_Witness ==
    /\ Len(data_chunks) = config.max_sessions
    /\ Events("evict_pass") # {}
    /\ Events("discard") # {}
    /\ reply = RCODE_OK

(***************************************************************************)
(* C5  Chunk-count capacity.  As claimed: after every eviction pass the    *)
(* stored chunks of all sessions number at most max_total_chunks.          *)
(***************************************************************************)
C5_Original ==
    \A i \in Events("evict_pass") : events[i].total <= config.max_total_chunks

\* C5 as amended: after every eviction pass the stored chunks number at most
\* max_total_chunks, or no session but the one being serviced is left
C5_ChunkCapacity ==
    \A i \in Events("evict_pass") :
        \/ events[i].total <= config.max_total_chunks
        \/ Range(events[i].sessions) \subseteq {events[i].sid}

\* a pass that found the chunk ceiling exceeded and evicted down to it
C5_Witness ==
    \E i \in Events("evict_pass") :
        /\ events[i].total_before > config.max_total_chunks
        /\ events[i].total <= config.max_total_chunks
        /\ Len(events[i].sessions) < config.max_sessions - 1

(***************************************************************************)
(* C6  Flush before discard: every discard of a session (by eviction or    *)
(* expiry) directly follows exactly one reassembly attempt for that        *)
(* session, made on the chunks and expected_total the session had; and a   *)
(* session leaves the maps only by such a discard.                         *)
(***************************************************************************)
C6_DiscardsFlushed ==
    \A i \in {j \in 1..Len(events') : events'[j].op = "discard"} :
        /\ i > 1
        /\ events'[i - 1].op = "flush"
        /\ events'[i - 1].sid = events'[i].sid
        /\ events'[i - 1].chunks = events'[i].chunks
        /\ events'[i - 1].expected = events'[i].expected
        /\ events'[i].chunks = SessionChunksOf(data_chunks, events'[i].sid)
        /\ events'[i].expected =
              (IF events'[i].sid \in DOMAIN expected_total_chunks
               THEN {expected_total_chunks[events'[i].sid]} ELSE {})
        /\ i > 2 => ~(events'[i - 2].op = "flush" /\ events'[i - 2].sid = events'[i].sid)

C6_RemovedOnlyByDiscard ==
    \A sid \in (Range(DictKeys(data_chunks)) \ Range(DictKeys(data_chunks')))
               \cup (DOMAIN expected_total_chunks \ DOMAIN expected_total_chunks')
               \cup (Range(DictKeys(session_last_activity))
                     \ Range(DictKeys(session_last_activity'))) :
        \E i \in 1..Len(events') : events'[i].op = "discard" /\ events'[i].sid = sid

C6_FlushBeforeDiscard ==
    [][RecordStep => (C6_DiscardsFlushed /\ C6_RemovedOnlyByDiscard)]_vars

\* a session holding chunks was discarded and its last flush wrote output
C6_Witness ==
    \E i \in Events("discard") :
        /\ events[i].chunks # EmptyMap
        /\ events[i - 1].wrote

(***************************************************************************)
(* C7  Rate bounds, as stated: current_rate never leaves                   *)
(* [base_rate_limit, max_rate_limit].                                      *)
(***************************************************************************)
C7_Original ==
    /\ current_rate >= client_config.base_rate_limit * RateScale
    /\ current_rate <= client_config.max_rate_limit * RateScale

(***************************************************************************)
(* C7  Rate bounds, as the sender keeps them: current_rate never leaves    *)
(* [0.5 * base_rate_limit, max_rate_limit].                                *)
(***************************************************************************)
C7_RateBounds ==
    /\ 2 * current_rate >= client_config.base_rate_limit * RateScale
    /\ current_rate <= client_config.max_rate_limit * RateScale

\* seven slow responses in a row brought the rate down to half the base rate
C7_Witness ==
    /\ Len(response_times) = 7
    /\ 2 * current_rate = client_config.base_rate_limit * RateScale

(***************************************************************************)
(* C8  Label bound: a label handed to the transport has at most 63         *)
(* characters, under every accepted setting and for every chunk index; a   *)
(* label the sender refuses is longer than 63 and is not handed over.      *)
(***************************************************************************)
C8_LabelBound ==
    /\ Len(transport_label) <= DNS_LABEL_MAX_LEN
    /\ refused_label # <<>> =>
          /\ Len(refused_label) > DNS_LABEL_MAX_LEN
          /\ transport_label = <<>>

\* a data label of 64 characters (chunk index 10000) was refused
C8_Witness ==
    /\ Len(refused_label) = DNS_LABEL_MAX_LEN + 1
    /\ transport_label = <<>>
    /\ Len(SplitAll(refused_label, Hyphen)) = 4

(***************************************************************************)
(* C9  Checksum rejection.  As claimed: a data record whose checksum does  *)
(* not match gets a failure reply and is not stored; a chunk enters a      *)
(* chunk map only from a record that passed checksum validation; and the   *)
(* rejected record leaves the chunk map of the session it addresses        *)
(* unchanged.                                                              *)
(***************************************************************************)
IsChecksumMismatch(parts) ==
    /\ Len(Join(parts, Hyphen)) <= DNS_LABEL_MAX_LEN
    /\ Len(parts) = 4
    /\ FieldsValid(parts[1], parts[2], parts[3], parts[4])
    /\ ~validate_checksum(parts[3], parts[4])

C9_StoredOnlyIfValid ==
    \A sid \in Range(DictKeys(data_chunks')) :
        \A seq \in DOMAIN SessionChunksOf(data_chunks', sid) :
            (\/ seq \notin DOMAIN SessionChunksOf(data_chunks, sid)
             \/ SessionChunksOf(data_chunks, sid)[seq] # SessionChunksOf(data_chunks', sid)[seq])
            => LET parts == SplitAll(SplitFirst(query', Dot), Hyphen)
               IN  /\ Len(parts) = 4
                   /\ parts[1] = sid /\ parts[2] = seq
                   /\ parts[3] = SessionChunksOf(data_chunks', sid)[seq]
                   /\ validate_checksum(parts[3], parts[4])

C9_RejectedLeavesSession ==
    LET parts == SplitAll(SplitFirst(query', Dot), Hyphen)
    IN  (RecordStep /\ IsChecksumMismatch(parts)) =>
            /\ reply' = RCODE_NXDOMAIN
            /\ SessionChunksOf(data_chunks', parts[1]) = SessionChunksOf(data_chunks, parts[1])

C9_Original == [][RecordStep => (C9_StoredOnlyIfValid /\ C9_RejectedLeavesSession)]_vars

(***************************************************************************)
(* C10  Transfer success predicate: once exfiltrate_file has returned for  *)
(* a file that passed validate_file, it returned True exactly if the       *)
(* number of chunks delivered equals the number of chunks of the file, a   *)
(* file of no chunks included.                                             *)
(***************************************************************************)
C10_Original ==
    (file_status = "readable" /\ pc \in {"COMPLETE", "FAILED"}) =>
        ((returned = "True") <=> (success_count = Len(chunks)))


(***************************************************************************)
(* C11  DONE signalling: the sender makes at most one DONE query per       *)
(* transfer, only once every chunk was attempted and all were delivered,   *)
(* never when a chunk failed permanently; however the DONE query ends, a   *)
(* transfer that made it reports success.                                  *)
(***************************************************************************)
C11_DoneSignalling ==
    /\ Len(done_sent) <= 1
    /\ done_sent # <<>> =>
          /\ chunk_index = Len(chunks)
          /\ success_count = Len(chunks)
          /\ failed_chunks = <<>>
          /\ pc = "COMPLETE"
          /\ returned = "True"
    /\ failed_chunks # <<>> => done_sent = <<>>

\* a transfer of several chunks whose DONE query ended in a transport error
C11_Witness ==
    /\ Len(chunks) > 1
    /\ done_sent = <<"TransportError">>
    /\ returned = "True"


(***************************************************************************)
(* C12  Bounded retry: one call of send_chunk makes at most                *)
(* max_retries + 1 transport attempts; an Answered, NameNotFound or NoData *)
(* outcome ends the attempts with the chunk delivered, any other outcome   *)
(* is retried, and the chunk is given up exactly when all                  *)
(* max_retries + 1 attempts ended in a transport error.                    *)
(***************************************************************************)
AllTransportErrors(results) ==
    \A i \in 1..Len(results) : results[i] = "TransportError"

C12_AttemptsBounded ==
    /\ Len(outcomes) <= MAX_RETRIES + 1
    /\ \A i \in 1..(Len(outcomes) - 1) : outcomes[i] = "TransportError"
    /\ chunk_sent = "True" <=>
          (outcomes # <<>> /\ outcomes[Len(outcomes)] \in Delivered)
    /\ chunk_sent = "pending" =>
          (Len(outcomes) <= MAX_RETRIES /\ AllTransportErrors(outcomes))

C13_SetOnlyByDone ==
    LET parts == SplitAll(SplitFirst(query', Dot), Hyphen)
    IN  \A sid \in DOMAIN expected_total_chunks' :
            (sid \notin DOMAIN expected_total_chunks
               \/ expected_total_chunks'[sid] # expected_total_chunks[sid])
            => (IsDoneRecord(parts) /\ parts[1] = sid /\ reply' = RCODE_OK)

C13_NeverDecreases ==
    \A sid \in DOMAIN expected_total_chunks \cap DOMAIN expected_total_chunks' :
        expected_total_chunks'[sid] >= expected_total_chunks[sid]

C13_Original == [][RecordStep => (C13_SetOnlyByDone /\ C13_NeverDecreases)]_vars


(***************************************************************************)
(* C14  Validation errors change no state: a data record rejected for a    *)
(* bad field (session id, chunk text or checksum outside the alphabet,     *)
(* sequence not exactly 4 digits, wrong field count, label above 63        *)
(* characters) gets a failure reply and leaves the chunk maps, the         *)
(* expected totals and the first_seen and last_activity maps as they were. *)
(***************************************************************************)
IsValidationError(query_name) ==
    LET subdomain == SplitFirst(query_name, Dot)
        parts == SplitAll(subdomain, Hyphen)
    IN  \/ Len(subdomain) > DNS_LABEL_MAX_LEN
        \/ ~IsDoneRecord(parts) /\ Len(parts) # 4
        \/ Len(parts) = 4 /\ ~FieldsValid(parts[1], parts[2], parts[3], parts[4])

C14_Original ==
    [][(RecordStep /\ IsValidationError(query')) =>
          /\ reply' = RCODE_NXDOMAIN
          /\ UNCHANGED <<data_chunks, expected_total_chunks, session_first_seen,
                         session_last_activity>>]_vars

(***************************************************************************)
(* C15  Error containment across sessions: a record that is rejected       *)
(* (malformed, validation failure, checksum mismatch) gets a reply and     *)
(* neither removes nor alters the stored chunks or the expected_total of   *)
(* any session other than the one it addresses.                            *)
(***************************************************************************)
OtherSessionsKept(addressed) ==
    /\ \A i \in 1..Len(data_chunks) :
          data_chunks[i][1] # addressed =>
              /\ DictHas(data_chunks', data_chunks[i][1])
              /\ DictGet(data_chunks', data_chunks[i][1]) = data_chunks[i][2]
    /\ \A sid \in DOMAIN expected_total_chunks \ {addressed} :
          /\ sid \in DOMAIN expected_total_chunks'
          /\ expected_total_chunks'[sid] = expected_total_chunks[sid]

C15_Original ==
    [][RecordStep =>
          /\ reply' \in {RCODE_OK, RCODE_NXDOMAIN}
          /\ reply' = RCODE_NXDOMAIN =>
                OtherSessionsKept(SplitAll(SplitFirst(query', Dot), Hyphen)[1])]_vars


(***************************************************************************)
(* C16  Per-record atomicity under concurrent dispatch: when resolve is    *)
(* called for two records concurrently, once both calls have returned the  *)
(* session maps, the rate limiter's window and the two replies are those   *)
(* of handling the two records one after the other in one of the two       *)
(* orders.                                                                 *)
(***************************************************************************)
FreshServerState ==
    [data_chunks |-> <<>>, expected_total_chunks |-> EmptyMap,
     session_first_seen |-> EmptyMap, session_last_activity |-> <<>>,
     rate_limit_timestamps |-> <<>>, output_files |-> EmptyMap,
     events |-> <<>>, reply |-> RCODE_OK]

SameAsSequential(first, second) ==
    LET one == resolve(config, FreshServerState, threads[first].query_name, now)
        two == resolve(config, one, threads[second].query_name, now)
    IN  /\ data_chunks = two.data_chunks
        /\ expected_total_chunks = two.expected_total_chunks
        /\ session_first_seen = two.session_first_seen
        /\ session_last_activity = two.session_last_activity
        /\ rate_limit_timestamps = two.rate_limit_timestamps
        /\ threads[first].rcode = one.reply
        /\ threads[second].rcode = two.reply

C16_Original ==
    (Len(threads) = 2 /\ \A t \in 1..2 : threads[t].pc = "returned") =>
        (SameAsSequential(1, 2) \/ SameAsSequential(2, 1))


(***************************************************************************)
(* C17  Global rate limit: with server_rate_limit = L the rate limiter's   *)
(* window never holds more than L timestamps and no 60-second window of    *)
(* time has more than L admitted records; a record that arrives while L    *)
(* admissions of the last 60 seconds are in the window gets a failure      *)
(* reply, is not added to the window and leaves the chunk maps, expected   *)
(* totals and session timestamps unchanged.                                *)
(***************************************************************************)
C17_WindowBounded ==
    \A limit \in config.server_rate_limit :
        /\ Len(rate_limit_timestamps) <= limit
        /\ \A i \in 1..Len(admitted) :
              Cardinality({j \in i..Len(admitted) :
                              admitted[j] - admitted[i] <= RateWindow}) <= limit

C17_FullWindowRejects ==
    LET recent == {i \in 1..Len(rate_limit_timestamps) :
                      rate_limit_timestamps[i] >= now - RateWindow}
        full == \E limit \in config.server_rate_limit : Cardinality(recent) >= limit
    IN  RecordStep =>
          /\ full <=> (\E i \in 1..Len(events') : events'[i] = RateLimitedEvent)
          /\ full =>
               /\ reply' = RCODE_NXDOMAIN
               /\ rate_limit_timestamps' =
                     SelectSeq(rate_limit_timestamps, LAMBDA t : t >= now - RateWindow)
               /\ admitted' = admitted
               /\ UNCHANGED <<data_chunks, expected_total_chunks, session_first_seen,
                              session_last_activity, output_files>>

C17_GlobalRateLimit == [](C17_WindowBounded) /\ [][C17_FullWindowRejects]_vars

\* a record was turned away by a full window, after an earlier admission
\* had left the window by age
C17_Witness ==
    /\ events = <<RateLimitedEvent>>
    /\ reply = RCODE_NXDOMAIN
    /\ Len(admitted) > Len(rate_limit_timestamps)
    /\ DictHas(data_chunks, SessionA)


(***************************************************************************)
(* C18  Idempotent upsert: a valid data record whose session and sequence  *)
(* number are already stored is answered by replacing the stored text of   *)
(* that sequence number with the record's chunk text; the session's other  *)
(* chunks, and so the number of sequence numbers stored, stay as they      *)
(* were (so delivering a record twice leaves the chunk map as after once). *)
(***************************************************************************)
C18_Original ==
    [][LET parts == SplitAll(SplitFirst(query', Dot), Hyphen)
       IN  (/\ now' = now
            /\ reply' = RCODE_OK
            /\ Len(parts) = 4
            /\ DictHas(data_chunks, parts[1])
            /\ parts[2] \in DOMAIN DictGet(data_chunks, parts[1]))
           => /\ DictHas(data_chunks', parts[1])
              /\ DictGet(data_chunks', parts[1])
                   = MapSet(DictGet(data_chunks, parts[1]), parts[2], parts[3])]_vars


(***************************************************************************)
(* C19  Transfer termination: provided every transport call and sleep      *)
(* returns, every call of exfiltrate_file ends in COMPLETE, returning      *)
(* success, or in FAILED, returning failure.  A transfer, once started     *)
(* (the file passed validate_file), goes INIT -> SENDING -> COMPLETE or    *)
(* FAILED, the DONE query being made on the way to COMPLETE only; a call   *)
(* whose file fails validate_file starts no transfer and fails at once.    *)
(* No state is ever left for an earlier one.                               *)
(***************************************************************************)
TerminalStates == {"COMPLETE", "FAILED"}

C19_Path ==
    /\ pc' # pc =>
          \/ pc = "INIT" /\ pc' = "SENDING" /\ file_status = "readable"
          \/ pc = "INIT" /\ pc' = "FAILED" /\ file_status # "readable"
          \/ pc = "SENDING" /\ pc' \in TerminalStates
    /\ done_sent' # done_sent => (pc = "SENDING" /\ pc' = "COMPLETE")
    /\ pc \in TerminalStates => UNCHANGED <<pc, returned, done_sent, success_count>>

C19_Results ==
    /\ pc \in {"INIT", "SENDING", "COMPLETE", "FAILED"}
    /\ pc = "COMPLETE" <=> returned = "True"
    /\ pc = "FAILED" <=> returned = "False"

C19_TransferTerminates ==
    /\ <>(pc \in TerminalStates)
    /\ [](C19_Results)
    /\ [][C19_Path]_vars

\* a transfer that ended in FAILED after delivering some chunks and giving
\* up others
C19_Witness ==
    /\ pc = "FAILED"
    /\ success_count > 0
    /\ failed_chunks # <<>>


(***************************************************************************)
(* C20  Delivery acknowledgement soundness: every chunk the sender counts  *)
(* as delivered was stored by the receiver when it answered the query, so  *)
(* a transfer that reports success has every chunk stored; a chunk the     *)
(* receiver rejected with a failure reply (checksum mismatch, validation   *)
(* error, rate limit) is not counted as delivered.                         *)
(***************************************************************************)
CountedDelivered ==
    {i \in 0..(chunk_index - 1) : \A k \in 1..Len(failed_chunks) : failed_chunks[k] # i}

C20_Original ==
    /\ \A i \in CountedDelivered : (i + 1) \notin rejected
    /\ returned = "True" => rejected = {}


(***************************************************************************)
(* C21  Contiguous-prefix reassembly: every reassembly attempt that writes *)
(* writes the decoding of the payloads of sequence numbers 0 .. k-1 joined *)
(* in increasing order, k >= 1 being the smallest sequence number the      *)
(* session does not hold; the attempt leaves the chunk map as it was, so   *)
(* the chunks above k stay stored for a later attempt.                     *)
(***************************************************************************)
PrefixText(chunk_map) ==
    Flatten([k \in 1..ContiguousPrefixLen(chunk_map) |-> chunk_map[SeqStr(k - 1)]])

DiscardedAfter(i) ==
    \E j \in Events("discard") : j > i /\ events[j].sid = events[i].sid

C21_ContiguousPrefix ==
    \A i \in Events("flush") :
        /\ events[i].wrote =>
              /\ ContiguousPrefixLen(events[i].chunks) >= 1
              /\ events[i].data = decode_base32_no_padding(PrefixText(events[i].chunks))
        /\ ~DiscardedAfter(i) =>
              SessionChunksOf(data_chunks, events[i].sid) = events[i].chunks

\* chunks 0, 1, 3 and 4 of 5 were stored, no DONE record was seen, and the
\* record just handled carried chunk 2: its attempt wrote all 5 payloads
C21_Witness ==
    /\ TransferTotal = 5
    /\ query = wire[3] \o DomainSuffix
    /\ \E i \in Events("flush") :
          /\ events[i].wrote
          /\ events[i].expected = {}
          /\ ContiguousPrefixLen(events[i].chunks) = 5
          /\ events[i].data = payload

(***************************************************************************)
(* C22  Global DONE accounting, as stated: once expected_total is known    *)
(* for a session, a reassembly attempt writes the output exactly when the  *)
(* number of distinct stored sequences of the session equals               *)
(* expected_total (read for an expected total of at least 1).              *)
(***************************************************************************)
C22_Original ==
    \A i \in Events("flush") :
        \A n \in events[i].expected :
            n >= 1 => (events[i].wrote <=> Cardinality(DOMAIN events[i].chunks) = n)

(***************************************************************************)
(* C22  Global DONE accounting, as the receiver does it: once              *)
(* expected_total is known for a session, a reassembly attempt writes the  *)
(* output exactly when the number of chunks stored without a gap from 0000 *)
(* equals expected_total, is at least 1, and their joined payload has a    *)
(* length Base32 without padding can have and decodes.                     *)
(***************************************************************************)
C22_DoneAccounting ==
    \A i \in Events("flush") :
        \A n \in events[i].expected :
            events[i].wrote <=>
                /\ ContiguousPrefixLen(events[i].chunks) = n
                /\ n >= 1
                /\ (Len(PrefixText(events[i].chunks)) % 8) \in ValidResidues
                /\ decode_base32_no_padding(PrefixText(events[i].chunks)) # DecodeError

\* the expected total was known and the data record just stored brought the
\* contiguous chunks up to it: the attempt wrote the output
C22_Witness ==
    /\ ~IsDoneRecord(QueryParts)
    /\ \E i \in Events("flush") :
          /\ events[i].wrote
          /\ events[i].sid = QueryParts[1]
          /\ events[i].expected = {ContiguousPrefixLen(events[i].chunks)}
          /\ events[i].expected = {MaxSeq + 1}

(***************************************************************************)
(* C23  Activity update precedes expiry: the record that addresses a       *)
(* session never causes that same session to be discarded, so the chunks   *)
(* the session held before the record are still stored after it.           *)
(***************************************************************************)
C23_Original ==
    \A i \in Events("discard") :
        events[i].sid = QueryParts[1] => events[i].chunks = EmptyMap

(***************************************************************************)
(* C24  Expiry and eviction run on every inbound record: every record the  *)
(* rate limiter admits, a data record, a DONE record or a malformed one,   *)
(* runs an eviction pass, and after it no tracked session has a            *)
(* last_activity older than chunk_timeout.                                 *)
(***************************************************************************)
NoIdleSessionTracked ==
    \A i \in 1..Len(session_last_activity) :
        now - session_last_activity[i][2] <= config.chunk_timeout

C24_Original ==
    [][(RecordStep /\ Events("rate_limited")' = {}) =>
          /\ NoIdleSessionTracked'
          /\ Events("evict_pass")' # {}]_vars

(***************************************************************************)
(* The receiver under capacity pressure: sessions first seen at different  *)
(* times, none of them idle yet.                                           *)
(***************************************************************************)
\* steps (records handled and clock steps) of one run
MaxEvictSteps == 5

\* a session limit of 2, and a chunk ceiling of 1
EvictConfigs ==
    { ServerConfigOf(2, 100, 100, {}), ServerConfigOf(5, 1, 100, {}) }

\* a first chunk for each of three sessions, a second one for the first,
\* and a record with an invalid chunk text for the second
EvictLabels ==
    {DataLabel(sid, SeqStr(0), ChunkME, calculate_checksum(ChunkME, 3)) : sid \in SessionIds}
    \cup { DataLabel(SessionA, SeqStr(1), ChunkME, calculate_checksum(ChunkME, 3)),
           DataLabel(SessionB, SeqStr(0), BadChunkText, WrongChecksum) }

InitEvict ==
    /\ config \in EvictConfigs
    /\ InitServer
    /\ NoTransfer
    /\ NoSender

\* the transport hands one query to resolve
EvictResolve ==
    /\ steps < MaxEvictSteps
    /\ \E label \in EvictLabels :
         \E st \in {resolve(config, ServerState, label \o DomainSuffix, now)} :
            /\ SetServerState(st)
            /\ query' = label \o DomainSuffix
    /\ steps' = steps + 1
    /\ UNCHANGED <<otherVars, config, now, transferVars, senderVars, labelVars>>

\* time passes between two records
EvictTick ==
    /\ steps < MaxEvictSteps
    /\ now' = now + TickStep
    /\ steps' = steps + 1
    /\ UNCHANGED <<otherVars, config, serverVars, transferVars, senderVars, labelVars>>

NextEvict == EvictResolve \/ EvictTick

SpecEvict == InitEvict /\ [][NextEvict]_vars

(***************************************************************************)
(* C25  Eviction order: the sessions an eviction pass removes are removed  *)
(* in the order of their first_seen, each one no younger than any other    *)
(* session of the session map that the pass keeps, the session being       *)
(* serviced aside; the session being serviced is never evicted; the pass   *)
(* ends with both limits holding or no other session left, and its last    *)
(* removal was needed.                                                     *)
(***************************************************************************)
\* the sessions the record discarded that were not idle before it: the
\* eviction pass removed them, not the idle expiry
EvictedBy(p) ==
    {i \in 1..(p - 1) :
        /\ events'[i].op = "discard"
        /\ ~IsIdle(config, [session_last_activity |-> session_last_activity],
                   events'[i].sid, now)}

FirstSeenBefore(sid) == FirstSeenOf([session_first_seen |-> session_first_seen], sid)

C25_PassInOrder(p) ==
    LET current == events'[p].sid
        kept == events'[p].sessions
        evicted == EvictedBy(p)
    IN  /\ \A i \in evicted : events'[i].sid # current
        /\ \A i, j \in evicted :
              i < j => FirstSeenBefore(events'[i].sid) <= FirstSeenBefore(events'[j].sid)
        /\ \A i \in evicted : \A k \in 1..Len(kept) :
              kept[k] # current => FirstSeenBefore(events'[i].sid) <= FirstSeenBefore(kept[k])
        /\ \/ /\ Len(kept) < config.max_sessions
              /\ events'[p].total <= config.max_total_chunks
           \/ \A k \in 1..Len(kept) : kept[k] = current
        /\ \A i \in evicted :
              (\A j \in evicted : j <= i) =>
                  \/ Len(kept) + 1 >= config.max_sessions
                  \/ events'[p].total + Cardinality(DOMAIN events'[i].chunks)
                        > config.max_total_chunks

C25_EvictionOrder ==
    [][RecordStep => \A p \in Events("evict_pass")' : C25_PassInOrder(p)]_vars

\* a pass evicted the session stored second, first seen (by a rejected
\* record) before the session stored first, and kept the latter
C25_Witness ==
    /\ QueryParts[1] = SessionC
    /\ DictKeys(data_chunks) = <<SessionA, SessionC>>
    /\ session_first_seen[SessionA] > 0
    /\ \E i \in Events("discard") : events[i].sid = SessionB /\ events[i].chunks # EmptyMap

(***************************************************************************)
(* The sender late in an outage: a file of OutageChunks chunks, of which   *)
(* the first OutageDelivered were delivered and every one since then       *)
(* failed all its attempts.  The run is taken up there and goes on with    *)
(* any outcome of the transport.                                           *)
(***************************************************************************)
\* chunks of the file sent into the outage: the file is the largest one of
\* so many chunks of 45 characters
OutageChunks == 259

\* chunks delivered before the outage, each answered within 50 ms
OutageDelivered == {0, 1}

\* chunks given up since
OutageGivenUp == 253..255

\* the rate and the response times after delivered_count such deliveries
RECURSIVE RateAfter(_, _)
RateAfter(ccfg, delivered_count) ==
    IF delivered_count = 0
    THEN [response_times |-> <<>>, current_rate |-> ccfg.base_rate_limit * RateScale]
    ELSE update_rate(ccfg, RateAfter(ccfg, delivered_count - 1).current_rate,
                     RateAfter(ccfg, delivered_count - 1).response_times, 50)

InitOutage ==
    /\ config = TransferServerConfig
    /\ InitServer
    /\ \E rates \in RateSettings : client_config = SenderConfigOf(rates)
    /\ payload = Payload((225 * OutageChunks) \div 8)
    /\ session_id = generate_session_id(client_config.session_id_length)
    /\ wire = <<>>
    /\ rejected = {}
    /\ discarded = FALSE
    /\ file_status = "readable"
    /\ pc = "SENDING"
    /\ chunks = chunk_data(payload, ClientChunkSize(client_config))
    /\ \E delivered_count \in OutageDelivered, given_up \in OutageGivenUp :
          /\ success_count = delivered_count
          /\ failed_chunks = [i \in 1..given_up |-> delivered_count + i - 1]
          /\ chunk_index = delivered_count + given_up
          /\ consecutive_errors = (MAX_RETRIES + 1) * given_up
          /\ current_rate = RateAfter(client_config, delivered_count).current_rate
          /\ response_times = RateAfter(client_config, delivered_count).response_times
    /\ attempt = 0
    /\ done_sent = <<>>
    /\ returned = "nothing"
    /\ delays = <<>>
    /\ transport_label = <<>>
    /\ refused_label = <<>>
    /\ outcomes = <<>>
    /\ chunk_sent = "nothing"

NextOutage == ChunkDelivered \/ ChunkFails \/ FinishTransfer

SpecOutage == InitOutage /\ [][NextOutage]_vars

(***************************************************************************)
(* C26  Sequential sending: the sender attempts the chunks one at a time   *)
(* in increasing order, goes to the next chunk only when the current one   *)
(* was delivered or given up, leaves the loop only after the last chunk    *)
(* (so it continues after a permanent failure), and at the end the failed  *)
(* list holds exactly the chunks that were not delivered.                  *)
(***************************************************************************)
C26_StepInOrder ==
    pc = "SENDING" =>
        /\ chunk_index' \in {chunk_index, chunk_index + 1}
        /\ chunk_index' = chunk_index + 1 =>
              \/ success_count' = success_count + 1 /\ failed_chunks' = failed_chunks
              \/ /\ success_count' = success_count
                 /\ failed_chunks' = Append(failed_chunks, chunk_index)
        /\ chunk_index' = chunk_index =>
              success_count' = success_count /\ failed_chunks' = failed_chunks
        /\ pc' \in TerminalStates => chunk_index = Len(chunks)

C26_FailedListExact ==
    (pc \in TerminalStates /\ file_status = "readable") =>
        /\ Len(failed_chunks) + success_count = Len(chunks)
        /\ \A i \in 1..Len(failed_chunks) : failed_chunks[i] \in 0..(Len(chunks) - 1)
        /\ \A i, j \in 1..Len(failed_chunks) : i < j => failed_chunks[i] < failed_chunks[j]

C26_Original == [](C26_FailedListExact) /\ [][C26_StepInOrder]_vars

(***************************************************************************)
(* C27  Error counter and backoff cap: consecutive_errors is 0 after every *)
(* delivery and grows by exactly 1 with every failed attempt; every call   *)
(* of _calculate_delay returns, with a multiplier of min(2 ^               *)
(* consecutive_errors, 16), never above 16 however many attempts failed in *)
(* a row, and a delay of at least 10 ms.                                   *)
(***************************************************************************)
C27_Step ==
    pc = "SENDING" =>
        /\ success_count' = success_count + 1 => consecutive_errors' = 0
        /\ (\/ attempt' = attempt + 1
            \/ Len(failed_chunks') > Len(failed_chunks) /\ ChunkPassesLocalChecks)
              => consecutive_errors' = consecutive_errors + 1
        /\ \A i \in 1..Len(delays') :
              /\ ~delays'[i].raised
              /\ delays'[i].multiplier \in {1, 2, 4, 8, 16}
              /\ \A d \in delays'[i].delay : d >= 10
        /\ attempt' = attempt + 1 =>
              delays'[Len(delays')].multiplier
                 = IF consecutive_errors' >= 4 THEN 16 ELSE 2 ^ consecutive_errors'

C27_Original == [][C27_Step]_vars

(***************************************************************************)
(* C28  Sender/receiver grammar agreement: every data label the sender     *)
(* hands to the transport has exactly four fields and a sequence field of  *)
(* exactly 4 digits, every DONE label exactly three fields and a total of  *)
(* exactly 4 digits, and the receiver accepts the label, reading back the  *)
(* session id, the sequence, the chunk text and the checksum (or the       *)
(* total) the sender wrote.                                                *)
(***************************************************************************)
C28_Original ==
    transport_label # <<>> =>
        LET parts == SplitAll(transport_label, Hyphen)
            after == resolve(config, ServerState, transport_label \o DomainSuffix, now)
        IN  /\ parts[1] = session_id
            /\ IF parts[2] = DoneMarker
               THEN /\ Len(parts) = 3
                    /\ Len(parts[3]) = SEQ_WIDTH /\ IsDigitStr(parts[3])
                    /\ after.reply = RCODE_OK
                    /\ session_id \in DOMAIN after.expected_total_chunks
                    /\ after.expected_total_chunks[session_id] = StrToInt(parts[3])
               ELSE /\ Len(parts) = 4
                    /\ Len(parts[2]) = SEQ_WIDTH /\ IsDigitStr(parts[2])
                    /\ after.reply = RCODE_OK
                    /\ DictHas(after.data_chunks, session_id)
                    /\ parts[2] \in DOMAIN DictGet(after.data_chunks, session_id)
                    /\ DictGet(after.data_chunks, session_id)[parts[2]] = parts[3]
                    /\ validate_checksum(parts[3], parts[4])

(***************************************************************************)
(* C29  Checksum field is mandatory: a four-field data record is accepted  *)
(* and its chunk stored only if its checksum field has 2 to 4 characters   *)
(* and matches; a record whose checksum field is empty or of one character *)
(* is rejected, whatever its chunk text.                                   *)
(***************************************************************************)
C29_Original ==
    (Len(QueryParts) = 4 /\ reply = RCODE_OK) =>
        /\ Len(QueryParts[4]) \in 2..4
        /\ validate_checksum(QueryParts[3], QueryParts[4])
        /\ DictHas(data_chunks, QueryParts[1])

(***************************************************************************)
(* C30  Receiver bookkeeping consistency: after every record, each session *)
(* of the chunk map has a first_seen and a last_activity entry, and each   *)
(* session with an expected total or a first_seen entry has a              *)
(* last_activity entry; a session that expiry or eviction discarded is in  *)
(* none of the four maps, unless the record itself addressed it anew; and  *)
(* after a record that ran the idle expiry every entry left belongs to a   *)
(* session that is not idle.                                               *)
(***************************************************************************)
C30_MapsConsistent ==
    /\ \A sid \in Range(DictKeys(data_chunks)) :
          sid \in DOMAIN session_first_seen /\ DictHas(session_last_activity, sid)
    /\ \A sid \in DOMAIN expected_total_chunks \cup DOMAIN session_first_seen :
          DictHas(session_last_activity, sid)

C30_RemovedTogether ==
    \A i \in Events("discard") :
        events[i].sid # QueryParts[1] =>
            /\ ~DictHas(data_chunks, events[i].sid)
            /\ events[i].sid \notin DOMAIN expected_total_chunks
            /\ events[i].sid \notin DOMAIN session_first_seen
            /\ ~DictHas(session_last_activity, events[i].sid)

C30_BookkeepingConsistency ==
    /\ [](C30_MapsConsistent /\ C30_RemovedTogether)
    /\ [][(RecordStep /\ Events("evict_pass")' # {}) => NoIdleSessionTracked']_vars

\* a session known from its DONE record only (no chunk map, no first_seen)
\* is tracked, and the record just handled discarded another session that
\* had chunks
C30_Witness ==
    /\ \E sid \in DOMAIN expected_total_chunks :
          ~DictHas(data_chunks, sid) /\ sid \notin DOMAIN session_first_seen
    /\ \E i \in Events("discard") :
          /\ events[i].sid # QueryParts[1]
          /\ events[i].chunks # EmptyMap
=============================================================================
